---- MODULE Spec2Model ----
(***************************************************************************)
(* A model of the manga translator's core: the Box Grouper and the OCR of  *)
(* a folder (utils/ocr_processor.py, app.py), the Sentence Assembler, the  *)
(* Translation Result Mapper, the render loop and the buttons of a session *)
(* (app.py), the Text-Fit Typesetter (utils/typesetter.py) and the         *)
(* downloader (utils/manga_scraper.py).                                    *)
(*                                                                         *)
(* Python lists are sequences (index 0 of the code is index 1 here) and    *)
(* Python strings are sequences of one-character strings, so that          *)
(* endswith, slicing, split, strip and capitalize are computed, not        *)
(* assumed.  Each call of a function of the code is one action: it draws   *)
(* the arguments from a bounded set and records them with the result.      *)
(***************************************************************************)
EXTENDS Integers, Sequences, FiniteSets, Bags, TLC

VARIABLES
    \* OCRProcessor._sort_boxes: the arguments and the returned groups
    items, x_threshold, y_threshold, grouped_items, sort_called,
    \* the Sentence Assembler: one group of fragments and its sentence
    group, sentence, assembled,
    \* app.py: st.session_state, the sentence list of the last translation
    \* step with its mode and response, the messages of the last handler, the
    \* calls of overlay_text that handler made, the buttons pressed
    session, all_sentences, translation_call, ui, overlay_calls, clicked,
    \* app.py: the steps of rendering the last handler made, image by image
    render_log,
    \* app.py: the number of OCR runs that stored their results in the session,
    \* and the number the last run had when the translated lines now in the
    \* session were stored
    ocr_runs, lines_run,
    \* Typesetter._fit_text: the text, the region and the (size, lines) returned
    fit_str, fit_width, fit_height, fit_result, fit_called,
    \* Typesetter._wrap_text: the text, the font size, the width and the lines returned
    wrap_str, wrap_size, wrap_width, wrap_lines, wrap_called,
    \* Typesetter.overlay_text: the state of the image file, the boxes and the
    \* texts it is given, the font_size keyword of the call (0 when the call
    \* has none), and what it did
    ov_image, ov_boxes, ov_texts, ov_font_size, ov_result, ov_called,
    \* Typesetter.overlay_text, the body of its loop for one box: the text, the
    \* rectangle of the box, and the draw.text calls made for it
    dr_text, dr_region, dr_drawn, dr_called,
    \* perform_ocr_on_folder: the folder and the processor it finds, and the
    \* list it returned; OCRProcessor.perform_ocr called by itself: the image
    \* and what it returned
    folder, folder_results, folder_done, ocr_image, ocr_return, ocr_called,
    \* MangaScraper.download_images: the number of URLs, the place in the code,
    \* the index of the URL, the locals of its while loop, the responses to the
    \* requests for it with the waits that followed; and, over the whole call,
    \* the URLs requested, those answered with status 200, those with a file
    dl_n, dl_pc, dl_i, retries_521, retries_backoff, success, dl_attempts,
    dl_requested, dl_got200, dl_files

group_vars == <<items, x_threshold, y_threshold, grouped_items, sort_called>>
asm_vars == <<group, sentence, assembled>>
app_vars == <<session, all_sentences, translation_call, ui, overlay_calls, clicked, render_log,
              ocr_runs, lines_run>>
fit_vars == <<fit_str, fit_width, fit_height, fit_result, fit_called>>
wrap_vars == <<wrap_str, wrap_size, wrap_width, wrap_lines, wrap_called>>
ov_vars == <<ov_image, ov_boxes, ov_texts, ov_font_size, ov_result, ov_called>>
dr_vars == <<dr_text, dr_region, dr_drawn, dr_called>>
ocr_vars == <<folder, folder_results, folder_done, ocr_image, ocr_return, ocr_called>>
dl_vars == <<dl_n, dl_pc, dl_i, retries_521, retries_backoff, success, dl_attempts,
             dl_requested, dl_got200, dl_files>>
vars ==
    <<group_vars, asm_vars, app_vars, fit_vars, wrap_vars, ov_vars, dr_vars, ocr_vars, dl_vars>>

\* the components a specification does not exercise stay as constructed
GroupIdle ==
    /\ items = <<>> /\ x_threshold = 0 /\ y_threshold = 0
    /\ grouped_items = <<>> /\ sort_called = FALSE
AsmIdle == group = <<>> /\ sentence = <<>> /\ assembled = FALSE
AppIdle ==
    /\ session = <<>> /\ all_sentences = <<>> /\ translation_call = <<>>
    /\ ui = {} /\ overlay_calls = <<>> /\ clicked = {} /\ render_log = <<>>
    /\ ocr_runs = 0 /\ lines_run = 0
FitIdle ==
    /\ fit_str = <<>> /\ fit_width = 0 /\ fit_height = 0
    /\ fit_result = <<>> /\ fit_called = FALSE
WrapIdle ==
    /\ wrap_str = <<>> /\ wrap_size = 0 /\ wrap_width = 0
    /\ wrap_lines = <<>> /\ wrap_called = FALSE
OvIdle ==
    /\ ov_image = "none" /\ ov_boxes = <<>> /\ ov_texts = <<>> /\ ov_font_size = 0
    /\ ov_result = <<>> /\ ov_called = FALSE
DrIdle == dr_text = <<>> /\ dr_region = <<>> /\ dr_drawn = <<>> /\ dr_called = FALSE
OcrIdle ==
    /\ folder = <<>> /\ folder_results = <<>> /\ folder_done = FALSE
    /\ ocr_image = "none" /\ ocr_return = <<>> /\ ocr_called = FALSE
DlIdle ==
    /\ dl_n = 0 /\ dl_pc = "idle" /\ dl_i = 0
    /\ retries_521 = 0 /\ retries_backoff = 0 /\ success = FALSE /\ dl_attempts = <<>>
    /\ dl_requested = {} /\ dl_got200 = {} /\ dl_files = {}

-----------------------------------------------------------------------------
(* Bounds of the model *)

\* the detections' polygons start at the columns x = 0..MaxCol
MaxCol == 2
\* the thresholds passed to _sort_boxes range over 0..MaxThreshold
MaxThreshold == 1
\* at most MaxItems detections per image
MaxItems == 3
\* at most MaxFragments text fragments in a group given to the assembler
MaxFragments == 3
\* a batch has at most MaxImages images, an image at most MaxGroups groups
MaxImages == 2
MaxGroups == 2
\* a JSON array response has at most MaxResponse elements
MaxResponse == 3
\* a text response has at most MaxTextChars characters
MaxTextChars == 3
\* a text given to the typesetter has at most MaxTextLen characters
MaxTextLen == 3
\* a region is RegionUnit .. MaxRegion * RegionUnit pixels wide and tall
RegionUnit == 25
MaxRegion == 6
\* overlay_text is given at most MaxOverlayGroups groups and as many texts
MaxOverlayGroups == 2
\* a folder holds at most MaxFiles files
MaxFiles == 2
\* download_images is given at most MaxUrls URLs
MaxUrls == 2
\* the OCR runs of a session
MaxRuns == 2

-----------------------------------------------------------------------------
(* Helpers *)

Min2(a, b) == IF a < b THEN a ELSE b
Max2(a, b) == IF a > b THEN a ELSE b
Range(s) == {s[k] : k \in DOMAIN s}
SeqMin(s) == CHOOSE m \in Range(s) : \A e \in Range(s) : m <= e
SeqMax(s) == CHOOSE m \in Range(s) : \A e \in Range(s) : m >= e
Indices(n) == [k \in 1..n |-> k]

RECURSIVE Concat(_)
\* the concatenation of a sequence of sequences
Concat(ss) == IF ss = <<>> THEN <<>> ELSE Head(ss) \o Concat(Tail(ss))

RECURSIVE SeqToBag(_)
SeqToBag(s) == IF s = <<>> THEN EmptyBag ELSE SetToBag({Head(s)}) (+) SeqToBag(Tail(s))

-----------------------------------------------------------------------------
(* OCRProcessor._sort_boxes                                                *)

\* ocr_processor.py:104-121: the bounding rect of a polygon (a list of points)
bounding_rect(box) ==
    LET xs == [k \in DOMAIN box |-> box[k][1]]
        ys == [k \in DOMAIN box |-> box[k][2]]
    IN  [min_x |-> SeqMin(xs), max_x |-> SeqMax(xs),
         min_y |-> SeqMin(ys), max_y |-> SeqMax(ys)]

\* ocr_processor.py:133-136
get_gap(start1, end1, start2, end2) ==
    Max2(0, Max2(start1, start2) - Min2(end1, end2))

\* a mutant of is_connected: one axis within its threshold is enough
is_connected_or(r1, r2, xt, yt) ==
    \/ get_gap(r1.min_x, r1.max_x, r2.min_x, r2.max_x) <= xt
    \/ get_gap(r1.min_y, r1.max_y, r2.min_y, r2.max_y) <= yt

\* a mutant of is_connected: the thresholds are exclusive
is_connected_strict(r1, r2, xt, yt) ==
    /\ get_gap(r1.min_x, r1.max_x, r2.min_x, r2.max_x) < xt
    /\ get_gap(r1.min_y, r1.max_y, r2.min_y, r2.max_y) < yt

\* ocr_processor.py:138-142: the test that adds the edge (i, j)
is_connected(r1, r2, xt, yt) ==
    /\ get_gap(r1.min_x, r1.max_x, r2.min_x, r2.max_x) <= xt
    /\ get_gap(r1.min_y, r1.max_y, r2.min_y, r2.max_y) <= yt

\* ocr_processor.py:125-144: adj[k] lists k's neighbours; the pair loop appends
\* the smaller indices first (as the outer loop reaches them), then the larger
build_adj(rects, xt, yt) ==
    [k \in DOMAIN rects |->
        SelectSeq(Indices(Len(rects)),
                  LAMBDA j : j # k /\ is_connected(rects[Min2(j, k)], rects[Max2(j, k)], xt, yt))]

RECURSIVE push_neighbors(_, _, _)
\* ocr_processor.py:159-162: every unvisited neighbour is marked and pushed
push_neighbors(nbrs, stack, visited) ==
    IF nbrs = <<>> THEN [stack |-> stack, visited |-> visited]
    ELSE IF Head(nbrs) \notin visited
         THEN push_neighbors(Tail(nbrs), Append(stack, Head(nbrs)),
                             visited \cup {Head(nbrs)})
         ELSE push_neighbors(Tail(nbrs), stack, visited)

RECURSIVE traverse(_, _, _, _)
\* ocr_processor.py:156-162: while stack: curr = stack.pop() ...
traverse(adj, stack, visited, component_indices) ==
    IF stack = <<>>
    THEN [component_indices |-> component_indices, visited |-> visited]
    ELSE LET curr == stack[Len(stack)]
             r    == push_neighbors(adj[curr], SubSeq(stack, 1, Len(stack) - 1), visited)
         IN  traverse(adj, r.stack, r.visited, Append(component_indices, curr))

RECURSIVE insert_by_key(_, _)
\* the place of one (key, value) pair in a list sorted by key: after every
\* pair whose key is not larger (Python's sort is stable)
insert_by_key(sorted, p) ==
    IF sorted = <<>> THEN <<p>>
    ELSE IF Head(sorted).key <= p.key
         THEN <<Head(sorted)>> \o insert_by_key(Tail(sorted), p)
         ELSE <<p>> \o sorted

RECURSIVE sort_pairs(_, _)
sort_pairs(done, todo) ==
    IF todo = <<>> THEN done
    ELSE sort_pairs(insert_by_key(done, Head(todo)), Tail(todo))

\* a mutant of sort_by_key: the list is left in the order it was built
sort_by_key_none(values, keys) == values

\* list.sort(key=...): values[k] has the key keys[k]
sort_by_key(values, keys) ==
    LET sorted == sort_pairs(<<>>, [k \in DOMAIN values |-> [key |-> keys[k], val |-> values[k]]])
    IN  [k \in DOMAIN sorted |-> sorted[k].val]

\* ocr_processor.py:166-168: the component sorted by min_y, as items
make_component(its, rects, component_indices) ==
    LET sorted == sort_by_key(component_indices,
                              [k \in DOMAIN component_indices |-> rects[component_indices[k]].min_y])
    IN  [k \in DOMAIN sorted |-> its[sorted[k]]]

RECURSIVE find_components_forget(_, _, _, _, _, _)
\* a mutant of find_components: the nodes a traversal visited are forgotten
find_components_forget(i, its, rects, adj, visited, grouped) ==
    IF i > Len(its) THEN grouped
    ELSE IF i \in visited
         THEN find_components_forget(i + 1, its, rects, adj, visited, grouped)
         ELSE LET t == traverse(adj, <<i>>, visited \cup {i}, <<>>)
              IN  find_components_forget(i + 1, its, rects, adj, visited \cup {i},
                                         Append(grouped, make_component(its, rects, t.component_indices)))

RECURSIVE find_components(_, _, _, _, _, _)
\* ocr_processor.py:147-169: for i in range(n): if not visited[i]: ...
find_components(i, its, rects, adj, visited, grouped) ==
    IF i > Len(its) THEN grouped
    ELSE IF i \in visited
         THEN find_components(i + 1, its, rects, adj, visited, grouped)
         ELSE LET t == traverse(adj, <<i>>, visited \cup {i}, <<>>)
              IN  find_components(i + 1, its, rects, adj, t.visited,
                                  Append(grouped, make_component(its, rects, t.component_indices)))

\* ocr_processor.py:172-184: the smallest y over the points of the group's boxes
get_group_y(grp) ==
    SeqMin([k \in DOMAIN grp |->
               SeqMin([p \in DOMAIN grp[k][1] |-> grp[k][1][p][2]])])

\* ocr_processor.py:84-188
sort_boxes(its, xt, yt) ==
    IF its = <<>> THEN <<>>
    ELSE LET rects   == [k \in DOMAIN its |-> bounding_rect(its[k][1])]
             adj     == build_adj(rects, xt, yt)
             grouped == find_components(1, its, rects, adj, {}, <<>>)
         IN  sort_by_key(grouped, [k \in DOMAIN grouped |-> get_group_y(grouped[k])])

-----------------------------------------------------------------------------
(* The inputs of _sort_boxes *)

\* a detection polygon: the four corners of the unit square at (x, y)
Quad(x, y) == << <<x, y>>, <<x + 1, y>>, <<x + 1, y + 1>>, <<x, y + 1>> >>
\* the rows the polygons start at: two rows of unit squares, one pixel apart
Rows == {0, 2}
Boxes == {Quad(x, y) : x \in 0..MaxCol, y \in Rows}

\* the recognised text of the k-th detection; the grouping never reads it
LabelOf(k) == <<"t", k>>

\* every list of at most MaxItems (box, text) detections
ItemLists ==
    UNION {{[k \in 1..n |-> <<b[k], LabelOf(k)>>] : b \in [1..n -> Boxes]} : n \in 0..MaxItems}

Thresholds == 0..MaxThreshold

-----------------------------------------------------------------------------
(* The state machine of the Box Grouper *)

InitGroup ==
    /\ AsmIdle /\ AppIdle /\ FitIdle /\ WrapIdle /\ OvIdle /\ DrIdle /\ OcrIdle /\ DlIdle
    /\ items \in ItemLists
    /\ x_threshold \in Thresholds
    /\ y_threshold \in Thresholds
    /\ grouped_items = <<>>
    /\ sort_called = FALSE

\* one call of OCRProcessor._sort_boxes(items, x_threshold, y_threshold)
SortBoxes ==
    /\ ~sort_called
    /\ grouped_items' = sort_boxes(items, x_threshold, y_threshold)
    /\ sort_called' = TRUE
    /\ UNCHANGED <<items, x_threshold, y_threshold>>

NextGroup == SortBoxes /\ UNCHANGED <<asm_vars, app_vars, fit_vars, wrap_vars, ov_vars, dr_vars, ocr_vars, dl_vars>>

SpecGroup == InitGroup /\ [][NextGroup]_vars

-----------------------------------------------------------------------------
(* Properties of the Box Grouper *)

\* the smallest y over the points of a detection's polygon
TopOf(item) == SeqMin([p \in DOMAIN item[1] |-> item[1][p][2]])
\* the places (group, member) of the output that hold the detection it
PlacesOf(it) ==
    {pl \in (DOMAIN grouped_items) \X (1..MaxItems + 1) :
        /\ pl[2] \in DOMAIN grouped_items[pl[1]]
        /\ grouped_items[pl[1]][pl[2]] = it}
\* the group of the output that holds input detection k
GroupOf(k) == CHOOSE g \in DOMAIN grouped_items : \E pl \in PlacesOf(items[k]) : pl[1] = g

\* C1: the groups returned by _sort_boxes partition the input: every input
\* detection is in exactly one place of exactly one group, no group is empty,
\* and the groups together hold the input detections and nothing else (also
\* for the empty list and for a single detection).
C1_Partition ==
    sort_called =>
        /\ \A k \in DOMAIN items : Cardinality(PlacesOf(items[k])) = 1
        /\ \A g \in DOMAIN grouped_items : grouped_items[g] # <<>>
        /\ SeqToBag(Concat(grouped_items)) = SeqToBag(items)
        /\ (items = <<>> => grouped_items = <<>>)
        /\ (Len(items) = 1 => grouped_items = <<items>>)

\* three detections returned as a group of two and a group of one
C1_Witness ==
    /\ sort_called
    /\ Len(items) = 3
    /\ Len(grouped_items) = 2
    /\ \E g \in DOMAIN grouped_items : Len(grouped_items[g]) = 2

\* C2: the groups come in non-decreasing order of the smallest min_y of their
\* members, and the members of a group in non-decreasing order of their own
\* min_y.
C2_Order ==
    sort_called =>
        /\ \A g \in DOMAIN grouped_items : \A h \in DOMAIN grouped_items :
              g < h =>
                 SeqMin([m \in DOMAIN grouped_items[g] |-> TopOf(grouped_items[g][m])])
                    <= SeqMin([m \in DOMAIN grouped_items[h] |-> TopOf(grouped_items[h][m])])
        /\ \A g \in DOMAIN grouped_items : \A m \in DOMAIN grouped_items[g] :
              \A o \in DOMAIN grouped_items[g] :
                 m < o => TopOf(grouped_items[g][m]) <= TopOf(grouped_items[g][o])

\* both sorts act: the group found first is returned last, and in the other
\* group the detection that came later in the input is returned first
C2_Witness ==
    /\ sort_called
    /\ Len(items) = 3
    /\ grouped_items = << <<items[3], items[2]>>, <<items[1]>> >>
    /\ TopOf(items[3]) < TopOf(items[2])
    /\ TopOf(items[3]) < TopOf(items[1])

\* the gap of the claim on one axis: max(0, max(min_i, min_j) - min(max_i, max_j))
AxisGap(lo1, hi1, lo2, hi2) ==
    LET d == (IF lo1 > lo2 THEN lo1 ELSE lo2) - (IF hi1 < hi2 THEN hi1 ELSE hi2)
    IN  IF d > 0 THEN d ELSE 0
XsOf(it) == {it[1][p][1] : p \in DOMAIN it[1]}
YsOf(it) == {it[1][p][2] : p \in DOMAIN it[1]}
Lo(S) == CHOOSE m \in S : \A e \in S : m <= e
Hi(S) == CHOOSE m \in S : \A e \in S : m >= e
XGap(a, b) == AxisGap(Lo(XsOf(a)), Hi(XsOf(a)), Lo(XsOf(b)), Hi(XsOf(b)))
YGap(a, b) == AxisGap(Lo(YsOf(a)), Hi(YsOf(a)), Lo(YsOf(b)), Hi(YsOf(b)))
\* input detections i and j are within both thresholds
Near(i, j) ==
    /\ XGap(items[i], items[j]) <= x_threshold
    /\ YGap(items[i], items[j]) <= y_threshold
RECURSIVE ChainFrom(_)
\* the detections linked to one of S by a chain of Near pairs
ChainFrom(S) ==
    LET T == S \cup {j \in DOMAIN items : \E i \in S : Near(i, j)}
    IN  IF T = S THEN S ELSE ChainFrom(T)

\* C3: two detections are in the same group if and only if a chain of
\* detections links them in which every consecutive pair is within both
\* thresholds; so A, B, C with A-B and B-C near but A-C not are one group, and
\* a pair near on one axis only, with no chain, is in two groups.
C3_Chain ==
    sort_called =>
        \A i \in DOMAIN items :
            LET chain == ChainFrom({i})
                g     == GroupOf(i)
            IN  \A j \in DOMAIN items : (GroupOf(j) = g) <=> (j \in chain)

\* A-B and B-C are near, A-C is not, and the three are returned as one group
C3_Witness ==
    /\ sort_called
    /\ Len(items) = 3
    /\ Near(1, 2) /\ Near(2, 3) /\ ~Near(1, 3)
    /\ Len(grouped_items) = 1
    /\ Len(grouped_items[1]) = 3

\* C4: the thresholds are inclusive: two detections with x_gap = x_threshold
\* and y_gap = y_threshold are returned as one group of two; with
\* x_gap = x_threshold + 1 (y_gap within y_threshold) as two groups of one.
C4_Boundary ==
    (sort_called /\ Len(items) = 2) =>
        /\ (XGap(items[1], items[2]) = x_threshold /\ YGap(items[1], items[2]) = y_threshold)
              => (Len(grouped_items) = 1 /\ Len(grouped_items[1]) = 2)
        /\ (XGap(items[1], items[2]) = x_threshold + 1 /\ YGap(items[1], items[2]) <= y_threshold)
              => (Len(grouped_items) = 2 /\ Len(grouped_items[1]) = 1 /\ Len(grouped_items[2]) = 1)

\* two detections exactly at both thresholds, neither of them 0, merged
C4_Witness ==
    /\ sort_called
    /\ Len(items) = 2
    /\ x_threshold > 0 /\ y_threshold > 0
    /\ XGap(items[1], items[2]) = x_threshold
    /\ YGap(items[1], items[2]) = y_threshold
    /\ Len(grouped_items) = 1

-----------------------------------------------------------------------------
(* Strings *)

\* the letters of the model's alphabet, lower case and upper case
Lowers == <<"a", "b", "d", "e", "f", "i", "o", "p", "r", "w", "x", "y">>
Uppers == <<"A", "B", "D", "E", "F", "I", "O", "P", "R", "W", "X", "Y">>
\* str.upper and str.lower on one character
char_upper(c) ==
    IF \E k \in DOMAIN Lowers : Lowers[k] = c
    THEN Uppers[CHOOSE k \in DOMAIN Lowers : Lowers[k] = c] ELSE c
char_lower(c) ==
    IF \E k \in DOMAIN Uppers : Uppers[k] = c
    THEN Lowers[CHOOSE k \in DOMAIN Uppers : Uppers[k] = c] ELSE c

\* a mutant of capitalize: the first character is upper-cased, the rest is kept
capitalize_first_only(str) ==
    [k \in DOMAIN str |-> IF k = 1 THEN char_upper(str[k]) ELSE str[k]]

\* str.capitalize(): first character upper-cased, the others lower-cased
capitalize(str) ==
    [k \in DOMAIN str |-> IF k = 1 THEN char_upper(str[k]) ELSE char_lower(str[k])]

\* word.endswith("-")
ends_with_hyphen(word) == word # <<>> /\ word[Len(word)] = "-"

RECURSIVE join_with(_, _)
\* sep.join(words)
join_with(sep, words) ==
    IF words = <<>> THEN <<>>
    ELSE IF Len(words) = 1 THEN words[1]
    ELSE words[1] \o sep \o join_with(sep, Tail(words))

-----------------------------------------------------------------------------
(* The Sentence Assembler: app.py:329-352 *)

RECURSIVE process_words_keep_hyphen(_, _, _)
\* a mutant of process_words: the merged fragment keeps its hyphen
process_words_keep_hyphen(grp, i, processed_words) ==
    IF i > Len(grp) THEN processed_words
    ELSE IF ends_with_hyphen(grp[i]) /\ i < Len(grp)
         THEN process_words_keep_hyphen(grp, i + 2, Append(processed_words, grp[i] \o grp[i + 1]))
         ELSE process_words_keep_hyphen(grp, i + 1, Append(processed_words, grp[i]))

RECURSIVE process_words(_, _, _)
\* app.py:332-346: while i < len(group): ... (i counts from 1 here)
process_words(grp, i, processed_words) ==
    IF i > Len(grp) THEN processed_words
    ELSE IF ends_with_hyphen(grp[i]) /\ i < Len(grp)
         THEN process_words(grp, i + 2,
                            Append(processed_words,
                                   SubSeq(grp[i], 1, Len(grp[i]) - 1) \o grp[i + 1]))
         ELSE process_words(grp, i + 1, Append(processed_words, grp[i]))

\* app.py:331-349: the sentence of one group (a list of fragments)
make_sentence(grp) == capitalize(join_with(<<" ">>, process_words(grp, 1, <<>>)))

\* the fragments a group is drawn from: empty, plain, upper case, a lone
\* hyphen, a trailing hyphen or two, a leading hyphen, and "pre-", "fix", "word"
Fragments ==
    { <<>>, <<"a">>, <<"B">>, <<"-">>, <<"a", "-">>, <<"B", "-", "-">>, <<"-", "a">>,
      <<"p", "r", "e", "-">>, <<"f", "i", "x">>, <<"w", "o", "r", "d">> }
\* every group of at most MaxFragments fragments
GroupInputs == UNION {[1..n -> Fragments] : n \in 0..MaxFragments}

InitAssemble ==
    /\ GroupIdle /\ AppIdle /\ FitIdle /\ WrapIdle /\ OvIdle /\ DrIdle /\ OcrIdle /\ DlIdle
    /\ group \in GroupInputs
    /\ sentence = <<>>
    /\ assembled = FALSE

\* the assembly of the sentence of one group
Assemble ==
    /\ ~assembled
    /\ sentence' = make_sentence(group)
    /\ assembled' = TRUE
    /\ UNCHANGED group

-----------------------------------------------------------------------------
(* Properties of the Sentence Assembler *)

RECURSIVE Pieces(_)
\* the pieces of the claim: a fragment ending in "-" that has a successor is
\* replaced, with its successor, by the two joined without the hyphen
Pieces(frags) ==
    IF frags = <<>> THEN <<>>
    ELSE IF Len(frags) >= 2 /\ Head(frags) # <<>> /\ Head(frags)[Len(Head(frags))] = "-"
         THEN << SubSeq(Head(frags), 1, Len(Head(frags)) - 1) \o frags[2] >>
                 \o Pieces(Tail(Tail(frags)))
         ELSE << Head(frags) >> \o Pieces(Tail(frags))
RECURSIVE Spaced(_)
\* the pieces with one space between neighbours
Spaced(pieces) ==
    IF Len(pieces) <= 1 THEN Concat(pieces)
    ELSE Head(pieces) \o <<" ">> \o Spaced(Tail(pieces))
UpperOf == [c \in {"a", "b", "d", "e", "f", "i", "o", "p", "r", "w", "x"} |->
               CASE c = "a" -> "A" [] c = "b" -> "B" [] c = "d" -> "D" [] c = "e" -> "E"
                 [] c = "f" -> "F" [] c = "i" -> "I" [] c = "o" -> "O" [] c = "p" -> "P"
                 [] c = "r" -> "R" [] c = "w" -> "W" [] c = "x" -> "X"]
\* str is txt with its first character upper-cased and the others lower-cased
IsCapitalised(str, txt) ==
    /\ Len(str) = Len(txt)
    /\ \A k \in DOMAIN txt :
          IF k = 1
          THEN str[k] = (IF txt[k] \in DOMAIN UpperOf THEN UpperOf[txt[k]] ELSE txt[k])
          ELSE \/ str[k] = txt[k] /\ \A c \in DOMAIN UpperOf : UpperOf[c] # txt[k]
               \/ str[k] \in DOMAIN UpperOf /\ UpperOf[str[k]] = txt[k]

\* C8: the sentence of a group is its pieces (hyphen-ended fragments merged
\* with their successor, scanning left to right and resuming after the
\* successor) joined by single spaces and capitalised; ["pre-", "fix", "word"]
\* gives "Prefix word".
C8_Assemble ==
    assembled =>
        /\ IsCapitalised(sentence, Spaced(Pieces(group)))
        /\ (group = << <<"p", "r", "e", "-">>, <<"f", "i", "x">>, <<"w", "o", "r", "d">> >>
               => sentence = <<"P", "r", "e", "f", "i", "x", " ", "w", "o", "r", "d">>)

\* the sentence "Prefix word" assembled from ["pre-", "fix", "word"]
C8_Witness ==
    /\ assembled
    /\ group = << <<"p", "r", "e", "-">>, <<"f", "i", "x">>, <<"w", "o", "r", "d">> >>
    /\ sentence = <<"P", "r", "e", "f", "i", "x", " ", "w", "o", "r", "d">>

RECURSIVE Chained(_)
\* the fragments in order, each one that ends in "-" and has a successor
\* written without that hyphen and directly followed by its successor, every
\* other one followed by one space and its successor
Chained(frags) ==
    IF frags = <<>> THEN <<>>
    ELSE IF Len(frags) = 1 THEN Head(frags)
    ELSE IF Head(frags) # <<>> /\ Head(frags)[Len(Head(frags))] = "-"
         THEN SubSeq(Head(frags), 1, Len(Head(frags)) - 1) \o Chained(Tail(frags))
         ELSE Head(frags) \o <<" ">> \o Chained(Tail(frags))

\* C22: in the sentence of a group every fragment that ends in "-" and is not
\* the last one is joined to the fragment after it with neither the hyphen
\* nor a space between them, also when several fragments in a row end in "-".
C22_EveryHyphenJoined ==
    assembled => IsCapitalised(sentence, Chained(group))

-----------------------------------------------------------------------------
(* utils/typesetter.py: the measurements, _wrap_text and _fit_text          *)
(*                                                                         *)
(* A font is known by its size.  The measurements of the drawing library   *)
(* are modelled by a font whose glyphs advance by whole units that scale   *)
(* with the size: the length of a text is the sum of its glyphs' advances, *)
(* the box of a line is as wide as its length and one size tall, and the   *)
(* box of the empty line is empty.                                         *)

\* the advance of one glyph at size 1
char_width(c) == IF c = "m" THEN 3 ELSE IF c = "i" THEN 1 ELSE 2

RECURSIVE units(_)
units(t) == IF t = <<>> THEN 0 ELSE char_width(Head(t)) + units(Tail(t))

\* typesetter.py:213-214: draw.textlength(t, font=font)
get_width(t, size) == size * units(t)
\* typesetter.py:186-187: bbox[2] - bbox[0] of draw.textbbox((0, 0), line, font=font)
line_width(line, size) == size * units(line)
\* typesetter.py:186-188: bbox[3] - bbox[1]
line_height(line, size) == IF line = <<>> THEN 0 ELSE size

RECURSIVE split_on(_, _, _, _)
\* str.split(sep) for a one-character sep
split_on(str, sep, current, parts) ==
    IF str = <<>> THEN Append(parts, current)
    ELSE IF Head(str) = sep
         THEN split_on(Tail(str), sep, <<>>, Append(parts, current))
         ELSE split_on(Tail(str), sep, Append(current, Head(str)), parts)

RECURSIVE split_word_lose(_, _, _, _, _)
\* a mutant of split_word: the character that did not fit is not carried over
split_word_lose(chars, sub_line, lines, size, max_width) ==
    IF chars = <<>> THEN [lines |-> lines, sub_line |-> sub_line]
    ELSE IF get_width(Append(sub_line, Head(chars)), size) <= max_width
         THEN split_word_lose(Tail(chars), Append(sub_line, Head(chars)), lines, size, max_width)
         ELSE split_word_lose(Tail(chars), <<>>, Append(lines, sub_line), size, max_width)

RECURSIVE split_word(_, _, _, _, _)
\* typesetter.py:228-235: the characters of a word that is too long
split_word(chars, sub_line, lines, size, max_width) ==
    IF chars = <<>> THEN [lines |-> lines, sub_line |-> sub_line]
    ELSE IF get_width(Append(sub_line, Head(chars)), size) <= max_width
         THEN split_word(Tail(chars), Append(sub_line, Head(chars)), lines, size, max_width)
         ELSE split_word(Tail(chars), <<Head(chars)>>, Append(lines, sub_line), size, max_width)

RECURSIVE wrap_words_whole(_, _, _, _, _)
\* a mutant of wrap_words: a word that is too long is kept whole
wrap_words_whole(words, current_line, lines, size, max_width) ==
    IF words = <<>>
    THEN IF current_line # <<>> THEN Append(lines, join_with(<<" ">>, current_line)) ELSE lines
    ELSE IF get_width(join_with(<<" ">>, Append(current_line, Head(words))), size) <= max_width
         THEN wrap_words_whole(Tail(words), Append(current_line, Head(words)), lines, size, max_width)
         ELSE IF current_line # <<>>
              THEN wrap_words_whole(Tail(words), <<Head(words)>>,
                                    Append(lines, join_with(<<" ">>, current_line)), size, max_width)
              ELSE wrap_words_whole(Tail(words), <<Head(words)>>, lines, size, max_width)

RECURSIVE wrap_words(_, _, _, _, _)
\* typesetter.py:216-241: for word in words: ... ; the last line is pushed
wrap_words(words, current_line, lines, size, max_width) ==
    IF words = <<>>
    THEN IF current_line # <<>> THEN Append(lines, join_with(<<" ">>, current_line)) ELSE lines
    ELSE IF get_width(join_with(<<" ">>, Append(current_line, Head(words))), size) <= max_width
         THEN wrap_words(Tail(words), Append(current_line, Head(words)), lines, size, max_width)
         ELSE IF current_line # <<>>
              THEN wrap_words(Tail(words), <<Head(words)>>,
                              Append(lines, join_with(<<" ">>, current_line)), size, max_width)
              ELSE LET r == split_word(Head(words), <<>>, lines, size, max_width)
                   IN  wrap_words(Tail(words), <<r.sub_line>>, r.lines, size, max_width)

\* typesetter.py:204-241: Typesetter._wrap_text, the font given by its size
wrap_text(str, size, max_width) ==
    wrap_words(split_on(str, " ", <<>>, <<>>), <<>>, <<>>, size, max_width)

RECURSIVE sum_heights(_, _)
\* typesetter.py:183-189: total_h
sum_heights(lines, size) ==
    IF lines = <<>> THEN 0 ELSE line_height(Head(lines), size) + sum_heights(Tail(lines), size)

\* typesetter.py:183-193: total_h <= max_height and fits_width
layout_fits(lines, size, max_width, max_height) ==
    /\ sum_heights(lines, size) <= max_height
    /\ \A k \in DOMAIN lines : ~(line_width(lines[k], size) > max_width)

\* typesetter.py:164-165
min_size == 10
max_size == 100

RECURSIVE fit_search_last(_, _, _, _, _, _)
\* a mutant of fit_search: the last layout tried is kept, fitting or not
fit_search_last(str, max_width, max_height, low, high, best) ==
    IF low > high THEN best
    ELSE LET mid   == (low + high) \div 2
             lines == wrap_text(str, mid, max_width)
         IN  IF layout_fits(lines, mid, max_width, max_height)
             THEN fit_search_last(str, max_width, max_height, mid + 1, high,
                                  [size |-> mid, lines |-> lines])
             ELSE fit_search_last(str, max_width, max_height, low, mid - 1,
                                  [size |-> mid, lines |-> lines])

RECURSIVE fit_search_stop(_, _, _, _, _, _)
\* a mutant of fit_search: the search ends at the first size that fits
fit_search_stop(str, max_width, max_height, low, high, best) ==
    IF low > high THEN best
    ELSE LET mid   == (low + high) \div 2
             lines == wrap_text(str, mid, max_width)
         IN  IF layout_fits(lines, mid, max_width, max_height)
             THEN [size |-> mid, lines |-> lines]
             ELSE fit_search_stop(str, max_width, max_height, low, mid - 1, best)

RECURSIVE fit_search(_, _, _, _, _, _)
\* typesetter.py:173-200: while low <= high: ...
fit_search(str, max_width, max_height, low, high, best) ==
    IF low > high THEN best
    ELSE LET mid   == (low + high) \div 2
             lines == wrap_text(str, mid, max_width)
         IN  IF layout_fits(lines, mid, max_width, max_height)
             THEN fit_search(str, max_width, max_height, mid + 1, high,
                             [size |-> mid, lines |-> lines])
             ELSE fit_search(str, max_width, max_height, low, mid - 1, best)

\* typesetter.py:160-202: Typesetter._fit_text: the size of best_font and best_lines.
\* The font file loads: when it does not, line 166 raises and nothing is returned.
fit_text(str, max_width, max_height) ==
    fit_search(str, max_width, max_height, min_size, max_size,
               [size |-> min_size, lines |-> <<str>>])

RECURSIVE fit_probes(_, _, _, _, _, _)
\* typesetter.py:173-200: the values mid takes in the while loop, in order
fit_probes(str, max_width, max_height, low, high, probes) ==
    IF low > high THEN probes
    ELSE LET mid   == (low + high) \div 2
             lines == wrap_text(str, mid, max_width)
         IN  IF layout_fits(lines, mid, max_width, max_height)
             THEN fit_probes(str, max_width, max_height, mid + 1, high, Append(probes, mid))
             ELSE fit_probes(str, max_width, max_height, low, mid - 1, Append(probes, mid))

\* np.min and np.max of a column of points
np_min(S) == CHOOSE m \in S : \A e \in S : m <= e
np_max(S) == CHOOSE m \in S : \A e \in S : m >= e
\* typesetter.py:115-120: the smallest and largest coordinates of one box
box_bounds(box) ==
    [min_x |-> np_min({box[p][1] : p \in DOMAIN box}),
     max_x |-> np_max({box[p][1] : p \in DOMAIN box}),
     min_y |-> np_min({box[p][2] : p \in DOMAIN box}),
     max_y |-> np_max({box[p][2] : p \in DOMAIN box})]

RECURSIVE draw_lines_block(_, _, _, _, _, _, _)
\* a mutant of draw_lines: every line starts where the widest line starts
draw_lines_block(lines, k, size, min_x, box_width, current_y, drawn) ==
    IF k > Len(lines) THEN drawn
    ELSE draw_lines_block(lines, k + 1, size, min_x, box_width,
                          current_y + 2 * line_height(lines[k], size),
                          Append(drawn,
                                 [line |-> lines[k],
                                  x |-> 2 * min_x + (box_width
                                           - np_max({line_width(lines[j], size) : j \in DOMAIN lines})),
                                  y |-> current_y]))

RECURSIVE draw_lines(_, _, _, _, _, _, _)
\* typesetter.py:144-152: for line, h in zip(lines, line_heights): the
\* draw.text((x, current_y), line) calls.  The code divides by 2 in floating
\* point; x and y are counted here in half pixels, which is exact.
draw_lines(lines, k, size, min_x, box_width, current_y, drawn) ==
    IF k > Len(lines) THEN drawn
    ELSE draw_lines(lines, k + 1, size, min_x, box_width,
                    current_y + 2 * line_height(lines[k], size),
                    Append(drawn,
                           [line |-> lines[k],
                            x |-> 2 * min_x + (box_width - line_width(lines[k], size)),
                            y |-> current_y]))

\* typesetter.py:129-152: the text of one box: _fit_text, total_text_height,
\* current_y = min_y + (box_height - total_text_height) / 2, and the lines drawn
draw_text(text, min_x, min_y, box_width, box_height) ==
    LET fit               == fit_text(text, box_width, box_height)
        total_text_height == sum_heights(fit.lines, fit.size)
    IN  [size |-> fit.size, lines |-> fit.lines,
         drawn |-> draw_lines(fit.lines, 1, fit.size, min_x, box_width,
                              2 * min_y + (box_height - total_text_height), <<>>)]

RECURSIVE overlay_boxes(_, _, _, _, _)
\* typesetter.py:109-152: for box, text in zip(boxes, texts): ...  texts is what
\* the caller put at this group's place of grouped_texts; app.py:513 puts a
\* translated sentence there, a string, so zip pairs the boxes with its
\* characters.  A draw records the box, the text and the rectangle it is
\* fitted into with the size and the lines _fit_text returned, and where the
\* lines were drawn.
overlay_boxes(boxes, texts, g, b, draws) ==
    IF b > Min2(Len(boxes), Len(texts)) THEN draws
    ELSE LET text       == <<texts[b]>>
             r          == box_bounds(boxes[b])
             box_width  == r.max_x - r.min_x
             box_height == r.max_y - r.min_y
             fit        == draw_text(text, r.min_x, r.min_y, box_width, box_height)
         IN  IF text = <<>> \/ box_width <= 0 \/ box_height <= 0
             THEN overlay_boxes(boxes, texts, g, b + 1, draws)
             ELSE overlay_boxes(boxes, texts, g, b + 1,
                     Append(draws, [group |-> g, box |-> b, text |-> text,
                                    region |-> <<r.min_x, r.min_y, r.max_x, r.max_y>>,
                                    size |-> fit.size, lines |-> fit.lines,
                                    drawn |-> fit.drawn]))

RECURSIVE overlay_groups(_, _, _, _)
\* typesetter.py:107: for boxes, texts in zip(grouped_boxes, grouped_texts): ...
overlay_groups(grouped_boxes, grouped_texts, g, draws) ==
    IF g > Min2(Len(grouped_boxes), Len(grouped_texts)) THEN draws
    ELSE overlay_groups(grouped_boxes, grouped_texts, g + 1,
                        overlay_boxes(grouped_boxes[g], grouped_texts[g], g, 1, draws))

\* typesetter.py:81-158: Typesetter.overlay_text; image says whether the file at
\* image_path is there and opens: FileNotFoundError is raised for a missing
\* file, None is returned for one that does not open
overlay_text(image, grouped_boxes, grouped_texts) ==
    IF image = "missing" THEN [raised |-> TRUE, returned |-> "nothing", draws |-> <<>>]
    ELSE IF image = "unreadable" THEN [raised |-> FALSE, returned |-> "None", draws |-> <<>>]
    ELSE [raised |-> FALSE, returned |-> "image",
          draws |-> overlay_groups(grouped_boxes, grouped_texts, 1, <<>>)]

-----------------------------------------------------------------------------
(* app.py: the session, the translation step and the render step *)

\* seq[a:b] of Python (indices from 0, clipped to the list)
py_slice(seq, a, b) == SubSeq(seq, a + 1, Min2(b, Len(seq)))

\* the whitespace of the model's alphabet
IsSpace(c) == c \in {" ", "\n"}

RECURSIVE lstrip(_)
lstrip(str) == IF str # <<>> /\ IsSpace(Head(str)) THEN lstrip(Tail(str)) ELSE str
RECURSIVE rstrip(_)
rstrip(str) ==
    IF str # <<>> /\ IsSpace(str[Len(str)]) THEN rstrip(SubSeq(str, 1, Len(str) - 1)) ELSE str
\* str.strip()
strip(str) == rstrip(lstrip(str))

RECURSIVE split_lines(_, _, _)
\* str.split('\n'): one more part than there are newlines
split_lines(str, current, parts) ==
    IF str = <<>> THEN Append(parts, current)
    ELSE IF Head(str) = "\n"
         THEN split_lines(Tail(str), <<>>, Append(parts, current))
         ELSE split_lines(Tail(str), Append(current, Head(str)), parts)

\* a mutant of text_lines: blank lines are kept
text_lines_keep_blank(text) ==
    LET parts == split_lines(strip(text), <<>>, <<>>)
    IN  [k \in DOMAIN parts |-> strip(parts[k])]

\* app.py:414: [line.strip() for line in result.strip().split('\n') if line.strip()]
text_lines(text) ==
    LET parts == SelectSeq(split_lines(strip(text), <<>>, <<>>),
                           LAMBDA line : strip(line) # <<>>)
    IN  [k \in DOMAIN parts |-> strip(parts[k])]

\* app.py:328-352: the sentences one OCR result contributes
image_sentences(res) ==
    IF "grouped_texts" \in DOMAIN res
    THEN [g \in DOMAIN res.grouped_texts |-> make_sentence(res.grouped_texts[g])]
    ELSE <<>>

RECURSIVE build_all_sentences(_, _, _)
\* app.py:326-352: for res in st.session_state.ocr_results: ...
build_all_sentences(results, i, acc) ==
    IF i > Len(results) THEN acc
    ELSE build_all_sentences(results, i + 1, acc \o image_sentences(results[i]))

\* a JSON object is the set of its (key, value) entries, one per key
has_key(data, key) == \E e \in data : e.key = key
dict_get(data, key, default) ==
    IF has_key(data, key) THEN (CHOOSE e \in data : e.key = key).val ELSE default

\* a mutant of map_dict: a sentence without a key is left out
map_dict_drop(data, sentences) ==
    LET kept == SelectSeq(sentences, LAMBDA sent : has_key(data, sent))
    IN  [k \in DOMAIN kept |-> dict_get(data, kept[k], kept[k])]

\* app.py:401-404: translated_lines.append(data.get(sent, sent)) for each sentence
map_dict(data, sentences) ==
    [k \in DOMAIN sentences |-> dict_get(data, sentences[k], sentences[k])]

\* app.py:393-416: the list parsed from the response; raised when json.loads fails
parse_result(mode, response, sentences) ==
    IF mode = "JSON"
    THEN CASE response.kind = "not_json"  -> [raised |-> TRUE, lines |-> <<>>, ui |-> {}]
           [] response.kind = "json_dict" ->
                [raised |-> FALSE, lines |-> map_dict(response.entries, sentences), ui |-> {}]
           [] response.kind = "json_list" ->
                [raised |-> FALSE, lines |-> response.elements, ui |-> {}]
           [] OTHER ->
                [raised |-> FALSE, lines |-> <<>>, ui |-> {"error_unexpected_json"}]
    ELSE [raised |-> FALSE, lines |-> text_lines(response.text), ui |-> {}]

\* a mutant of count_signal: the warning is given only for a shorter output
count_signal_short(lines, sentences) ==
    IF Len(lines) < Len(sentences) THEN {"warning_mismatch"} ELSE {"success_count_matches"}

\* app.py:420-423
count_signal(lines, sentences) ==
    IF Len(lines) # Len(sentences) THEN {"warning_mismatch"} ELSE {"success_count_matches"}

\* a mutant of start_translation: a response that does not parse leaves an
\* empty list in the session
start_translation_store_failed(sess, mode, response) ==
    LET sentences == build_all_sentences(sess.ocr_results, 1, <<>>)
    IN  IF response.kind = "none"
        THEN [session |-> sess, ui |-> {"error_failed"}]
        ELSE LET parsed == parse_result(mode, response, sentences)
             IN  IF parsed.raised
                 THEN [session |-> ("translated_lines" :> <<>>) @@ sess,
                       ui |-> {"success_completed", "error_processing", "raw_response"}]
                 ELSE [session |-> ("translated_lines" :> parsed.lines) @@ sess,
                       ui |-> {"success_completed"} \cup parsed.ui
                                 \cup count_signal(parsed.lines, sentences)]

\* a mutant of start_translation: the mapper runs on an empty response when
\* the translator returned None
start_translation_map_none(sess, mode, response) ==
    LET sentences == build_all_sentences(sess.ocr_results, 1, <<>>)
    IN  IF response.kind = "none"
        THEN [session |-> ("translated_lines" :> <<>>) @@ sess,
              ui |-> {"error_failed"} \cup count_signal(<<>>, sentences)]
        ELSE LET parsed == parse_result(mode, response, sentences)
             IN  IF parsed.raised
                 THEN [session |-> sess,
                       ui |-> {"success_completed", "error_processing", "raw_response"}]
                 ELSE [session |-> ("translated_lines" :> parsed.lines) @@ sess,
                       ui |-> {"success_completed"} \cup parsed.ui
                                 \cup count_signal(parsed.lines, sentences)]

\* app.py:382-433: the session and the messages after the Start Translation button
start_translation(sess, mode, response) ==
    LET sentences == build_all_sentences(sess.ocr_results, 1, <<>>)
    IN  IF response.kind = "none"
        THEN [session |-> sess, ui |-> {"error_failed"}]
        ELSE LET parsed == parse_result(mode, response, sentences)
             IN  IF parsed.raised
                 THEN [session |-> sess,
                       ui |-> {"success_completed", "error_processing", "raw_response"}]
                 ELSE [session |-> ("translated_lines" :> parsed.lines) @@ sess,
                       ui |-> {"success_completed"} \cup parsed.ui
                                 \cup count_signal(parsed.lines, sentences)]

\* app.py:370-379: the keyword arguments of the call of translate_text
translate_kwargs(provider) ==
    {"text", "model", "prompt", "json_format"}
        \cup (IF provider = "api" THEN {"api_key"} ELSE {})
\* api_translator.py:77 and ollama_translator.py:59: the parameters translate_text accepts
translate_text_params(provider) ==
    IF provider = "api"
    THEN {"text", "model", "prompt", "api_key", "base_url", "json_format"}
    ELSE {"text", "model", "prompt"}
\* api_translator.py:101-131: None after an exception of the request and for
\* a response without content, the content otherwise
api_translate_text(result) ==
    IF result.kind \in {"exception", "empty"} THEN [kind |-> "none"] ELSE result
\* ollama_translator.py:74-99: None after an exception of the request and for
\* a response without a message content, the content otherwise
ollama_translate_text(result) ==
    IF result.kind \in {"exception", "empty"} THEN [kind |-> "none"] ELSE result
\* app.py:382: current_translator.translate_text(**translate_kwargs)
translate_text(provider, result) ==
    IF provider = "api" THEN api_translate_text(result) ELSE ollama_translate_text(result)

\* typesetter.py:81: the parameters overlay_text accepts
overlay_text_params == {"image_path", "grouped_boxes", "grouped_texts", "output_path"}
\* app.py:510-518: the keyword arguments of the call
overlay_call_kwargs ==
    {"image_path", "grouped_boxes", "grouped_texts", "output_path",
     "font_name", "font_size", "padding"}

\* the entries of the render log: what was done for an image
Step(i, step, draws) == [image |-> i, step |-> step, draws |-> draws]

RECURSIVE render_loop_skip(_, _, _, _, _, _)
\* a mutant of render_loop: the index moves on only for a cleaned image
render_loop_skip(results, translated, removed, i, curr_translation_idx, out) ==
    IF i > Len(results) THEN [calls |-> out.calls, log |-> out.log, raised |-> FALSE]
    ELSE IF "grouped_texts" \in DOMAIN results[i]
         THEN LET num_lines == Len(results[i].grouped_texts)
                  img_translations ==
                      py_slice(translated, curr_translation_idx, curr_translation_idx + num_lines)
                  call == [image |-> i, grouped_texts |-> img_translations]
                  done == overlay_text("ok", results[i].grouped_boxes, img_translations)
              IN  IF removed[i]
                  THEN IF overlay_call_kwargs \subseteq overlay_text_params /\ ~done.raised
                       THEN render_loop_skip(results, translated, removed, i + 1,
                               curr_translation_idx + num_lines,
                               [calls |-> Append(out.calls, call),
                                log |-> out.log \o <<Step(i, "cleaned", <<>>),
                                                     Step(i, "typeset", done.draws)>>])
                       ELSE [calls |-> Append(out.calls, call),
                             log |-> out.log \o <<Step(i, "cleaned", <<>>),
                                                  Step(i, "overlay_raised", <<>>)>>,
                             raised |-> TRUE]
                  ELSE render_loop_skip(results, translated, removed, i + 1,
                          curr_translation_idx,
                          [calls |-> out.calls,
                           log |-> Append(out.log, Step(i, "remove_failed", <<>>))])
         ELSE render_loop_skip(results, translated, removed, i + 1, curr_translation_idx, out)

RECURSIVE render_loop(_, _, _, _, _, _)
\* app.py:479-529: for i, res in enumerate(ocr_results): ...  removed[i] tells
\* whether remove_text returned an image for image i (it returns None when the
\* file cannot be read or inpainting fails).  The call of overlay_text is
\* recorded with the translations it is given; Python raises TypeError when a
\* call passes a keyword the function does not accept, and an exception of
\* the call or in the function ends the loop in the handler's except clause
\* (app.py:535), which is outside the loop.  The cleaned file overlay_text is
\* given was written at line 505.
render_loop(results, translated, removed, i, curr_translation_idx, out) ==
    IF i > Len(results) THEN [calls |-> out.calls, log |-> out.log, raised |-> FALSE]
    ELSE IF "grouped_texts" \in DOMAIN results[i]
         THEN LET num_lines == Len(results[i].grouped_texts)
                  img_translations ==
                      py_slice(translated, curr_translation_idx, curr_translation_idx + num_lines)
                  call == [image |-> i, grouped_texts |-> img_translations]
                  done == overlay_text("ok", results[i].grouped_boxes, img_translations)
              IN  IF removed[i]
                  THEN IF overlay_call_kwargs \subseteq overlay_text_params /\ ~done.raised
                       THEN render_loop(results, translated, removed, i + 1,
                               curr_translation_idx + num_lines,
                               [calls |-> Append(out.calls, call),
                                log |-> out.log \o <<Step(i, "cleaned", <<>>),
                                                     Step(i, "typeset", done.draws)>>])
                       ELSE [calls |-> Append(out.calls, call),
                             log |-> out.log \o <<Step(i, "cleaned", <<>>),
                                                  Step(i, "overlay_raised", <<>>)>>,
                             raised |-> TRUE]
                  ELSE render_loop(results, translated, removed, i + 1,
                          curr_translation_idx + num_lines,
                          [calls |-> out.calls,
                           log |-> Append(out.log, Step(i, "remove_failed", <<>>))])
         ELSE render_loop(results, translated, removed, i + 1, curr_translation_idx, out)

-----------------------------------------------------------------------------
(* The inputs of the session *)

\* the groups OCR found: "ab", "b" and "a-" + "b" (the same sentence as "ab")
GroupPool == << << <<"a", "b">> >>, << <<"b">> >>, << <<"a", "-">>, <<"b">> >> >>
\* the texts of group g of image k
PoolGroup(k, g) == GroupPool[((k + g - 2) % Len(GroupPool)) + 1]
\* the polygon of a detection: the corners of a rectangle
Rect(x0, y0, x1, y1) == << <<x0, y0>>, <<x1, y0>>, <<x1, y1>>, <<x0, y1>> >>
\* the boxes of the groups of GroupPool: one box, one box without width, two boxes
BoxPool == << <<Rect(0, 0, 50, 25)>>, <<Rect(10, 50, 10, 75)>>,
              <<Rect(0, 100, 50, 125), Rect(0, 130, 50, 155)>> >>
\* the boxes of group g of image k
PoolBoxes(k, g) == BoxPool[((k + g - 2) % Len(BoxPool)) + 1]
\* app.py:164-174: the entry of image k, with c groups or with an error
OcrEntry(k, c) ==
    IF c < 0 THEN [filename |-> k, error |-> "e"]
    ELSE [filename |-> k, grouped_boxes |-> [g \in 1..c |-> PoolBoxes(k, g)],
          grouped_texts |-> [g \in 1..c |-> PoolGroup(k, g)]]
\* the results of a batch of 1..MaxImages images, each failed or with 0..MaxGroups groups
OcrResultsInputs ==
    UNION {{[k \in 1..n |-> OcrEntry(k, c[k])] : c \in [1..n -> -1..MaxGroups]} : n \in 1..MaxImages}

\* the translations a response may hold
Translations == { <<"X">>, <<"Y">> }
\* the sentences a response may be keyed by
SentenceKeys == { <<"A", "b">>, <<"B">> }
SeqsUpTo(S, n) == UNION {[1..m -> S] : m \in 0..n}
\* the responses of the translator: None, or a string that is a JSON object, a
\* JSON array, another JSON value, or no JSON at all
JsonResponses ==
    {[kind |-> "none"], [kind |-> "not_json"], [kind |-> "json_other"]}
    \cup {[kind |-> "json_dict", entries |-> d] :
             d \in {e \in SUBSET [key : SentenceKeys, val : Translations] :
                       \A a \in e : \A b \in e : a.key = b.key => a = b}}
    \cup {[kind |-> "json_list", elements |-> l] : l \in SeqsUpTo(Translations, MaxResponse)}
\* None, or a non-empty text of at most MaxTextChars characters
TextResponses ==
    {[kind |-> "none"]}
    \cup {[kind |-> "text", text |-> t] :
             t \in SeqsUpTo({"X", " ", "\n"}, MaxTextChars) \ {<<>>}}
\* the translators of app.py:255-281
Providers == {"ollama", "api"}
\* what the request of a translator ends with: an exception, a response
\* without content, or a content
RequestResults(mode) ==
    {[kind |-> "exception"], [kind |-> "empty"]}
    \cup ((IF mode = "JSON" THEN JsonResponses ELSE TextResponses) \ {[kind |-> "none"]})
\* the translated lines an earlier translation step left in the session
EarlierLines == << <<"Y">> >>

-----------------------------------------------------------------------------
(* The state machine of the session *)

Init ==
    /\ GroupIdle /\ AsmIdle /\ FitIdle /\ WrapIdle /\ OvIdle /\ DrIdle /\ OcrIdle /\ DlIdle
    /\ session \in {[ocr_results |-> r, current_image_folder |-> "folder"] :
                       r \in OcrResultsInputs}
                   \cup {[ocr_results |-> r, current_image_folder |-> "folder",
                          translated_lines |-> EarlierLines] : r \in OcrResultsInputs}
    /\ all_sentences = <<>>
    /\ translation_call = [mode |-> "none", provider |-> "none", response |-> [kind |-> "none"]]
    /\ ui = {}
    /\ overlay_calls = <<>>
    /\ clicked = {}
    /\ render_log = <<>>
    /\ ocr_runs = 1
    /\ lines_run = 0

\* app.py:365-433: the Start Translation button.  A call of translate_text
\* with a keyword the translator does not accept raises TypeError outside any
\* try: the run of the script ends there and the exception is shown.
StartTranslation ==
    /\ "translate" \notin clicked
    /\ "ocr_results" \in DOMAIN session /\ session.ocr_results # <<>>
    /\ \E provider \in Providers : \E mode \in {"JSON", "Text"} :
       \E result \in RequestResults(mode) :
          IF translate_kwargs(provider) \subseteq translate_text_params(provider)
          THEN LET response == translate_text(provider, result)
                   out == start_translation(session, mode, response)
               IN  /\ session' = out.session
                   /\ ui' = out.ui
                   /\ translation_call' =
                         [mode |-> mode, provider |-> provider, response |-> response]
                   /\ lines_run' = IF out.ui \cap {"error_failed", "error_processing"} = {}
                                   THEN ocr_runs ELSE lines_run
          ELSE /\ session' = session
               /\ ui' = {"exception"}
               /\ translation_call' =
                     [mode |-> mode, provider |-> provider, response |-> [kind |-> "raised"]]
               /\ lines_run' = lines_run
    /\ all_sentences' = build_all_sentences(session.ocr_results, 1, <<>>)
    /\ clicked' = clicked \cup {"translate"}
    /\ overlay_calls' = <<>>
    /\ render_log' = <<>>
    /\ UNCHANGED ocr_runs

\* app.py:436-537: the Confirm & Render Images button
ConfirmRender ==
    /\ "render" \notin clicked
    /\ "translated_lines" \in DOMAIN session /\ session.translated_lines # <<>>
    /\ IF "current_image_folder" \notin DOMAIN session
       THEN /\ ui' = {"error_folder_missing"}
            /\ UNCHANGED <<overlay_calls, render_log>>
       ELSE \E removed \in [DOMAIN session.ocr_results -> BOOLEAN] :
               LET out == render_loop(session.ocr_results, session.translated_lines,
                                      removed, 1, 0, [calls |-> <<>>, log |-> <<>>])
               IN  /\ overlay_calls' = out.calls
                   /\ render_log' = out.log
                   /\ ui' = IF out.raised THEN {"error_rendering"} ELSE {"success_saved"}
    /\ clicked' = clicked \cup {"render"}
    /\ UNCHANGED <<session, all_sentences, translation_call, ocr_runs, lines_run>>

\* the OCR results a run on one image may store: an error entry, or 0..MaxGroups groups
Batches == {r \in OcrResultsInputs : Len(r) = 1}
\* app.py:49: the Operation Mode
Modes == {"Scrape Only", "Scrape & OCR", "Manual OCR Input"}

\* app.py:179-238: the Start Process button.  In the scrape modes
\* downloaded_folder is what download_images returns, and download_images has
\* no return statement (manga_scraper.py:147-230): the value is None, the OCR of
\* line 222 is not run and the session is left as it was.  In the manual mode
\* the results of perform_ocr_on_folder are stored, the empty list when the
\* folder is not there.  No other key of the session is written or removed.
StartProcess ==
    /\ \E mode \in Modes : \E given \in BOOLEAN :
          IF mode = "Manual OCR Input" /\ given
          THEN /\ ocr_runs < MaxRuns
               /\ \E ocr_results \in Batches \cup {<<>>} :
                     session' = ("ocr_results" :> ocr_results)
                                   @@ ("current_image_folder" :> "folder") @@ session
               /\ ocr_runs' = ocr_runs + 1
               /\ ui' = {"success_manual_ocr"}
          ELSE /\ ui' = IF ~given THEN {"error_no_input"} ELSE {"success_scraping"}
               /\ UNCHANGED <<session, ocr_runs>>
    /\ overlay_calls' = <<>>
    /\ render_log' = <<>>
    /\ UNCHANGED <<all_sentences, translation_call, clicked, lines_run>>

\* the session as app.py finds it when the page is first opened
InitSession ==
    /\ GroupIdle /\ AsmIdle /\ FitIdle /\ WrapIdle /\ OvIdle /\ DrIdle /\ OcrIdle /\ DlIdle
    /\ session = <<>>
    /\ all_sentences = <<>>
    /\ translation_call = [mode |-> "none", provider |-> "none", response |-> [kind |-> "none"]]
    /\ ui = {}
    /\ overlay_calls = <<>>
    /\ clicked = {}
    /\ render_log = <<>>
    /\ ocr_runs = 0
    /\ lines_run = 0

NextSession ==
    \/ StartProcess /\ UNCHANGED <<group_vars, asm_vars, fit_vars, wrap_vars, ov_vars, dr_vars, ocr_vars, dl_vars>>
    \/ StartTranslation /\ UNCHANGED <<group_vars, asm_vars, fit_vars, wrap_vars, ov_vars, dr_vars, ocr_vars, dl_vars>>
    \/ ConfirmRender /\ UNCHANGED <<group_vars, asm_vars, fit_vars, wrap_vars, ov_vars, dr_vars, ocr_vars, dl_vars>>

SpecSession == InitSession /\ [][NextSession]_vars

-----------------------------------------------------------------------------
(* Properties of the translation step and the render step *)

\* image k of the batch has grouped texts (its OCR result carries no error)
HasGroups(k) == "grouped_texts" \in DOMAIN session.ocr_results[k]
GroupCount(k) == IF HasGroups(k) THEN Len(session.ocr_results[k].grouped_texts) ELSE 0
RECURSIVE Offset(_)
\* the sum of the group counts of the images before image k
Offset(k) == IF k <= 1 THEN 0 ELSE Offset(k - 1) + GroupCount(k - 1)
\* the part of a list at the places a + 1 .. a + n, as far as the list reaches
Part(list, a, n) ==
    [m \in 1..(IF Len(list) >= a + n THEN n ELSE IF Len(list) > a THEN Len(list) - a ELSE 0)
        |-> list[a + m]]

\* C5: the flattened list holds, for each image in batch order, one sentence
\* per group in group order, and none for an image with an error; each call of
\* overlay_text is given, for its image k, the part of the translated list
\* that starts at the sum of the group counts of the images before k and is as
\* long as k's group count; so when the translated list has the length of the
\* sentence list, group g of image k is given the translation at the place of
\* the sentence built from that group.
C5_Positional ==
    /\ "translate" \in clicked =>
          /\ Len(all_sentences) = Offset(Len(session.ocr_results) + 1)
          /\ \A k \in DOMAIN session.ocr_results : \A g \in 1..GroupCount(k) :
                all_sentences[Offset(k) + g]
                   = make_sentence(session.ocr_results[k].grouped_texts[g])
    /\ \A c \in DOMAIN overlay_calls :
          LET k == overlay_calls[c].image
              given == overlay_calls[c].grouped_texts
          IN  /\ HasGroups(k)
              /\ given = Part(session.translated_lines, Offset(k), GroupCount(k))
              /\ Len(session.translated_lines) = Len(all_sentences) =>
                    /\ Len(given) = GroupCount(k)
                    /\ \A g \in 1..GroupCount(k) :
                          given[g] = session.translated_lines[Offset(k) + g]

\* overlay_text is called for the second image, after a first image with two
\* groups, with the third of three translations, which differs from the first
C5_Witness ==
    /\ Len(all_sentences) = 3
    /\ "translated_lines" \in DOMAIN session
    /\ Len(session.translated_lines) = 3
    /\ session.translated_lines[1] # session.translated_lines[3]
    /\ Offset(2) = 2
    /\ overlay_calls = << [image |-> 2, grouped_texts |-> <<session.translated_lines[3]>>] >>

\* the last handler that ran is the translation step
AfterTranslation == "translate" \in clicked /\ "render" \notin clicked

\* C6: when the response parses as a JSON object, the output has one entry per
\* sentence: the object's value under the key equal to the sentence when there
\* is such a key, the sentence itself when there is none; nothing is dropped
\* and no error is raised.
C6_DictFallback ==
    (AfterTranslation /\ translation_call.mode = "JSON"
        /\ translation_call.response.kind = "json_dict") =>
        /\ "translated_lines" \in DOMAIN session
        /\ Len(session.translated_lines) = Len(all_sentences)
        /\ \A i \in DOMAIN all_sentences :
              \/ [key |-> all_sentences[i], val |-> session.translated_lines[i]]
                    \in translation_call.response.entries
              \/ /\ \A e \in translation_call.response.entries : e.key # all_sentences[i]
                 /\ session.translated_lines[i] = all_sentences[i]
        /\ ui \cap {"error_processing", "error_failed", "error_unexpected_json"} = {}

\* sentences ["Ab", "B"] and an object with the only key "Ab" give [value, "B"]
C6_Witness ==
    /\ AfterTranslation
    /\ all_sentences = << <<"A", "b">>, <<"B">> >>
    /\ translation_call.mode = "JSON"
    /\ translation_call.response
          = [kind |-> "json_dict", entries |-> {[key |-> <<"A", "b">>, val |-> <<"X">>]}]
    /\ session.translated_lines = << <<"X">>, <<"B">> >>

\* the place of the first newline of a text, 0 when it has none
FirstNewline(t) ==
    IF \E k \in DOMAIN t : t[k] = "\n"
    THEN CHOOSE k \in DOMAIN t : t[k] = "\n" /\ \A j \in 1..(k - 1) : t[j] # "\n"
    ELSE 0
RECURSIVE RawLines(_)
RawLines(t) ==
    IF FirstNewline(t) = 0 THEN <<t>>
    ELSE <<SubSeq(t, 1, FirstNewline(t) - 1)>> \o RawLines(SubSeq(t, FirstNewline(t) + 1, Len(t)))
\* a line without the spaces at its ends
Trimmed(l) ==
    LET inked == {k \in DOMAIN l : l[k] # " "}
    IN  IF inked = {} THEN <<>>
        ELSE SubSeq(l, CHOOSE k \in inked : \A j \in inked : k <= j,
                       CHOOSE k \in inked : \A j \in inked : k >= j)
\* the non-blank lines of a text, trimmed, in their order
LinesOf(t) ==
    LET kept == SelectSeq(RawLines(t), LAMBDA l : Trimmed(l) # <<>>)
    IN  [k \in DOMAIN kept |-> Trimmed(kept[k])]
\* the elements of the last response: of a JSON array, or of a text
ResponseElements ==
    IF translation_call.response.kind = "json_list"
    THEN translation_call.response.elements
    ELSE LinesOf(translation_call.response.text)

\* C7: for a JSON array or a line-delimited text, the output is the response's
\* elements in their order, neither truncated nor padded; the mismatch warning
\* is given if and only if their number differs from the number of sentences
\* (the count-matches message otherwise); the output is stored in both cases;
\* 3 sentences and a 2-line text give the warning and a 2-element list.
C7_ListOrText ==
    (AfterTranslation
        /\ \/ translation_call.mode = "JSON" /\ translation_call.response.kind = "json_list"
           \/ translation_call.mode = "Text" /\ translation_call.response.kind = "text") =>
        /\ "translated_lines" \in DOMAIN session
        /\ session.translated_lines = ResponseElements
        /\ ("warning_mismatch" \in ui) <=> (Len(ResponseElements) # Len(all_sentences))
        /\ ("success_count_matches" \in ui) <=> (Len(ResponseElements) = Len(all_sentences))
        /\ (translation_call.response = [kind |-> "text", text |-> <<"X", "\n", "X">>]
              /\ Len(all_sentences) = 3)
              => ("warning_mismatch" \in ui /\ Len(session.translated_lines) = 2)

\* 3 sentences, the text "X\nX": the warning, and the two lines stored
C7_Witness ==
    /\ AfterTranslation
    /\ Len(all_sentences) = 3
    /\ translation_call.mode = "Text"
    /\ translation_call.response = [kind |-> "text", text |-> <<"X", "\n", "X">>]
    /\ "warning_mismatch" \in ui
    /\ session.translated_lines = << <<"X">>, <<"X">> >>

\* the step just taken is the Start Translation button
TranslationStep == "translate" \notin clicked /\ "translate" \in clicked'
\* the messages of the mapper about the count
CountSignals == {"warning_mismatch", "success_count_matches"}

\* C14: when JSON was requested and the response is not valid JSON, the error
\* is reported together with the raw response, neither the mismatch warning
\* nor the count-matches message is given, and the session, with the
\* translated list it held or did not hold before, is left as it was.
C14_ParseFailure ==
    [][(TranslationStep /\ translation_call'.mode = "JSON"
          /\ translation_call'.response.kind = "not_json") =>
          /\ session' = session
          /\ {"error_processing", "raw_response"} \subseteq ui'
          /\ ui' \cap CountSignals = {}]_vars

\* a response that is no JSON, in a session that holds an earlier translated list
C14_Witness ==
    /\ AfterTranslation
    /\ translation_call.mode = "JSON" /\ translation_call.response.kind = "not_json"
    /\ "translated_lines" \in DOMAIN session
    /\ session.translated_lines = EarlierLines
    /\ {"error_processing", "raw_response"} \subseteq ui

\* C15: when the translator returns None, the failure is shown, the mapper
\* does not run (no message of the mapper is given) and the session, with the
\* translated list it held or did not hold before, is left as it was.
C15_CallFailure ==
    [][(TranslationStep /\ translation_call'.response.kind = "none") =>
          /\ session' = session
          /\ ui' = {"error_failed"}]_vars

\* None returned in JSON mode to a session that holds an earlier translated list
C15_Witness ==
    /\ AfterTranslation
    /\ translation_call.provider = "api" /\ translation_call.mode = "JSON"
    /\ translation_call.response.kind = "none"
    /\ "translated_lines" \in DOMAIN session
    /\ session.translated_lines = EarlierLines
    /\ ui = {"error_failed"}

\* the last handler that ran is the render step
AfterRender == ui \cap {"error_rendering", "success_saved"} # {}
\* the rectangle over every point of every box of a group
RegionOf(boxes) ==
    LET xs == UNION {{boxes[b][p][1] : p \in DOMAIN boxes[b]} : b \in DOMAIN boxes}
        ys == UNION {{boxes[b][p][2] : p \in DOMAIN boxes[b]} : b \in DOMAIN boxes}
    IN  [min_x |-> Lo(xs), min_y |-> Lo(ys), max_x |-> Hi(xs), max_y |-> Hi(ys)]
\* a rectangle with a width and a height
Positive(r) == r.max_x - r.min_x > 0 /\ r.max_y - r.min_y > 0
GroupRegion(k, g) == RegionOf(session.ocr_results[k].grouped_boxes[g])
\* the region of group g of image k has no width or no height
Degenerate(k, g) == ~Positive(GroupRegion(k, g))
\* the steps of the render log that are about image k
StepsOf(k) == {c \in DOMAIN render_log : render_log[c].image = k}

\* C11: when an image with a group of degenerate region is cleaned and given
\* to the typesetter, no exception is raised, nothing is drawn for that group,
\* and every later image with groups is still processed.
C11_DegenerateSkipped ==
    AfterRender =>
       \A k \in DOMAIN session.ocr_results :
          ((\E c \in StepsOf(k) : render_log[c].step = "cleaned")
              /\ \E g \in 1..GroupCount(k) : Degenerate(k, g)) =>
             /\ "error_rendering" \notin ui
             /\ \E c \in StepsOf(k) :
                   /\ render_log[c].step = "typeset"
                   /\ \A d \in DOMAIN render_log[c].draws :
                         ~Degenerate(k, render_log[c].draws[d].group)
             /\ \A j \in DOMAIN session.ocr_results :
                   (j > k /\ HasGroups(j)) => StepsOf(j) # {}

\* C17: a failure of text removal or of typesetting on an image stops no
\* later image: after the render step every image with groups has been
\* through text removal.
C17_FailureIsolated ==
    AfterRender =>
       \A k \in DOMAIN session.ocr_results :
          HasGroups(k) =>
             \E c \in StepsOf(k) : render_log[c].step \in {"cleaned", "remove_failed"}

\* C28: whatever buttons were pressed before, the translations the render
\* step hands to overlay_text for an image come from a translated list that
\* was made from the OCR results now in the session: after an OCR run has
\* replaced the results, a list left over from the batch before is not
\* rendered onto the new images.
C28_NoStaleRender ==
    (AfterRender /\ \E c \in DOMAIN overlay_calls : overlay_calls[c].grouped_texts # <<>>)
        => lines_run = ocr_runs

-----------------------------------------------------------------------------
(* OCRProcessor.perform_ocr and perform_ocr_on_folder (app.py:132-177)      *)
(*                                                                         *)
(* A Python list is a sequence and a tuple is a sequence too: `return []`  *)
(* is <<>> and `return a, b` is <<a, b>>, and `x, y = value` raises unless *)
(* the value has two items.                                                *)

\* ocr_processor.py:84: the thresholds _sort_boxes has when it is given none
default_threshold == 20

\* what the engine found on an image with text: "a" above "b", 5 pixels apart
Detections ==
    << << << <<0, 0>>, <<50, 0>>, <<50, 25>>, <<0, 25>> >>, <<"a">> >>,
       << << <<0, 30>>, <<50, 30>>, <<50, 55>>, <<0, 55>> >>, <<"b">> >> >>

\* ocr_processor.py:69-82: the groups of _sort_boxes, split into boxes and texts
split_groups(sorted_groups) ==
    << [g \in DOMAIN sorted_groups |->
           [m \in DOMAIN sorted_groups[g] |-> sorted_groups[g][m][1]]],
       [g \in DOMAIN sorted_groups |->
           [m \in DOMAIN sorted_groups[g] |-> sorted_groups[g][m][2]]] >>

\* ocr_processor.py:24-82: OCRProcessor.perform_ocr on an image that
\*   "unconvertible": has an extension outside supported_exts and does not convert,
\*   "engine_raises": makes predict raise,
\*   "no_result":     predict returns nothing for (not result or result[0] is None),
\*   "no_detections": predict returns a result with no polygon and no text,
\*   "text":          predict returns Detections.
perform_ocr(image) ==
    CASE image = "unconvertible" -> [raised |-> FALSE, value |-> << <<>>, <<>> >>]
      [] image = "engine_raises" -> [raised |-> TRUE, value |-> <<>>]
      [] image = "no_result"     -> [raised |-> FALSE, value |-> <<>>]
      [] image = "no_detections" ->
            [raised |-> FALSE,
             value |-> split_groups(sort_boxes(<<>>, default_threshold, default_threshold))]
      [] OTHER ->
            [raised |-> FALSE,
             value |-> split_groups(sort_boxes(Detections, default_threshold, default_threshold))]

\* ocr_processor.py:24: the parameters perform_ocr accepts
perform_ocr_params == {"image_path"}
\* app.py:163: the arguments of the call
perform_ocr_call_args == {"image_path", "x_threshold", "y_threshold"}

\* app.py:162-174: the entry of one file: the call raises TypeError for a keyword
\* the function does not accept, the unpacking raises ValueError for a value
\* that has not two items, and the except clause makes the entry of an error
ocr_entry(file) ==
    IF ~(perform_ocr_call_args \subseteq perform_ocr_params)
    THEN [filename |-> file.name, error |-> "TypeError"]
    ELSE LET r == perform_ocr(file.kind)
         IN  IF r.raised THEN [filename |-> file.name, error |-> "Exception"]
             ELSE IF Len(r.value) # 2 THEN [filename |-> file.name, error |-> "ValueError"]
             ELSE [filename |-> file.name, grouped_boxes |-> r.value[1],
                   grouped_texts |-> r.value[2]]

RECURSIVE sorted(_)
\* sorted(files): by name
sorted(files) ==
    IF files = <<>> THEN <<>>
    ELSE LET first == CHOOSE k \in DOMAIN files :
                         \A j \in DOMAIN files : files[k].name <= files[j].name
         IN  <<files[first]>>
                \o sorted(SubSeq(files, 1, first - 1) \o SubSeq(files, first + 1, Len(files)))

RECURSIVE ocr_loop_break(_, _, _)
\* a mutant of ocr_loop: the loop ends at the first error
ocr_loop_break(files, i, ocr_results) ==
    IF i > Len(files) THEN ocr_results
    ELSE IF "error" \in DOMAIN ocr_entry(files[i])
         THEN Append(ocr_results, ocr_entry(files[i]))
         ELSE ocr_loop_break(files, i + 1, Append(ocr_results, ocr_entry(files[i])))

RECURSIVE ocr_loop(_, _, _)
\* app.py:158-174: for i, filename in enumerate(sorted(files)): ...
ocr_loop(files, i, ocr_results) ==
    IF i > Len(files) THEN ocr_results
    ELSE ocr_loop(files, i + 1, Append(ocr_results, ocr_entry(files[i])))

\* app.py:132-177: perform_ocr_on_folder; a file of kind "other" has no image extension
perform_ocr_on_folder(fold) ==
    IF ~fold.exists THEN <<>>
    ELSE IF ~fold.processor THEN <<>>
    ELSE LET files == SelectSeq(fold.listing, LAMBDA f : f.kind # "other")
         IN  IF files = <<>> THEN <<>> ELSE ocr_loop(sorted(files), 1, <<>>)

\* the images perform_ocr may be given
ImageKinds == {"unconvertible", "engine_raises", "no_result", "no_detections", "text"}
\* what os.listdir gives: at most MaxFiles files of different names, in any order
Listings ==
    UNION {{l \in [1..n -> [name : 1..MaxFiles, kind : ImageKinds \cup {"other"}]] :
               \A a \in 1..n : \A b \in 1..n : l[a].name = l[b].name => a = b} :
           n \in 0..MaxFiles}

\* app.py:75-77: the X Threshold and Y Threshold inputs, 20 unless changed;
\* with 3 the two Detections, 5 pixels apart, are two groups, with 20 one
OperatorThresholds == {3, default_threshold}

InitOcr ==
    /\ GroupIdle /\ AsmIdle /\ AppIdle /\ FitIdle /\ WrapIdle /\ OvIdle /\ DrIdle /\ DlIdle
    /\ folder \in [exists : BOOLEAN, processor : BOOLEAN, listing : Listings,
                   x_threshold : OperatorThresholds, y_threshold : OperatorThresholds]
    /\ folder_results = <<>>
    /\ folder_done = FALSE
    /\ ocr_image = "none"
    /\ ocr_return = <<>>
    /\ ocr_called = FALSE

\* one call of perform_ocr_on_folder(folder_path, ...)
PerformOcrOnFolder ==
    /\ ~folder_done
    /\ folder_results' = perform_ocr_on_folder(folder)
    /\ folder_done' = TRUE
    /\ UNCHANGED <<folder, ocr_image, ocr_return, ocr_called>>

\* one call of OCRProcessor.perform_ocr(image_path), as in text_remover.py:83
PerformOcr ==
    /\ ~ocr_called
    /\ \E image \in ImageKinds :
          /\ ocr_image' = image
          /\ ocr_return' = perform_ocr(image)
    /\ ocr_called' = TRUE
    /\ UNCHANGED <<folder, folder_results, folder_done>>

NextOcr ==
    \/ PerformOcrOnFolder
          /\ UNCHANGED <<group_vars, asm_vars, app_vars, fit_vars, wrap_vars, ov_vars, dr_vars, dl_vars>>
    \/ PerformOcr
          /\ UNCHANGED <<group_vars, asm_vars, app_vars, fit_vars, wrap_vars, ov_vars, dr_vars, dl_vars>>

SpecOcr == InitOcr /\ [][NextOcr]_vars

\* the image files of the folder
ImageFiles ==
    IF folder.exists
    THEN {folder.listing[k] : k \in {j \in DOMAIN folder.listing : folder.listing[j].kind # "other"}}
    ELSE {}
\* the file an entry of the results is about
FileOf(entry) == CHOOSE f \in ImageFiles : f.name = entry.filename
\* an entry of an error: the error field and no grouped data
ErrorEntry(entry) ==
    /\ "error" \in DOMAIN entry
    /\ "grouped_boxes" \notin DOMAIN entry /\ "grouped_texts" \notin DOMAIN entry
\* one entry per image file, by ascending name; an entry has grouped data or
\* is an entry of an error; the entry of an image that makes OCR raise is one
\* of an error, and the images after it have their entries
OneEntryPerImage ==
    /\ Len(folder_results) = Cardinality(ImageFiles)
    /\ \A f \in ImageFiles : \E i \in DOMAIN folder_results : folder_results[i].filename = f.name
    /\ \A i \in DOMAIN folder_results : \A j \in DOMAIN folder_results :
          i < j => folder_results[i].filename < folder_results[j].filename
    /\ \A i \in DOMAIN folder_results :
          /\ ErrorEntry(folder_results[i]) \/ "error" \notin DOMAIN folder_results[i]
          /\ FileOf(folder_results[i]).kind = "engine_raises" => ErrorEntry(folder_results[i])

\* C16 as stated: perform_ocr_on_folder returns one entry per image file of
\* the folder, in sorted order of the names; the entry of an image on which
\* OCR raises carries an error and no grouped data, and the later images are
\* still processed.
C16_Stated == folder_done => OneEntryPerImage

\* C16: the same, when the OCR processor was initialised; when it was not, the
\* function returns the empty list whatever the folder holds.
C16_OneEntryPerImage ==
    /\ (folder_done /\ folder.processor) => OneEntryPerImage
    /\ (folder_done /\ ~folder.processor) => folder_results = <<>>

\* two images listed out of order, the first by name makes OCR raise: two
\* entries by ascending name, the first one of an error
C16_Witness ==
    /\ folder_done /\ folder.exists /\ folder.processor
    /\ Len(folder.listing) = 2
    /\ folder.listing[1].name = 2 /\ folder.listing[2].name = 1
    /\ folder.listing[2].kind = "engine_raises" /\ folder.listing[1].kind = "text"
    /\ Len(folder_results) = 2
    /\ folder_results[1].filename = 1 /\ ErrorEntry(folder_results[1])
    /\ folder_results[2].filename = 2

\* C18: an image on which the engine finds no text is no error: perform_ocr
\* returns no group for it, and its entry in the results of the folder has
\* empty grouped boxes and texts and no error field.
C18_NoTextNoError ==
    /\ (ocr_called /\ ocr_image \in {"no_result", "no_detections"}) =>
          /\ ~ocr_return.raised
          /\ ocr_return.value \in { <<>>, << <<>>, <<>> >> }
    /\ (folder_done /\ folder.processor) =>
          \A i \in DOMAIN folder_results :
             FileOf(folder_results[i]).kind \in {"no_result", "no_detections"} =>
                /\ "error" \notin DOMAIN folder_results[i]
                /\ "grouped_boxes" \in DOMAIN folder_results[i]
                /\ "grouped_texts" \in DOMAIN folder_results[i]
                /\ folder_results[i].grouped_boxes = <<>>
                /\ folder_results[i].grouped_texts = <<>>

\* the groups the Box Grouper makes of Detections under thresholds xt and yt
GroupedUnder(xt, yt) == split_groups(sort_boxes(Detections, xt, yt))

\* C21: the x_threshold and y_threshold the operator chose are the thresholds
\* the Box Grouper applies to the detections of every image of the batch: the
\* entry of an image with text holds the groups made under those thresholds.
C21_ChosenThresholds ==
    (folder_done /\ folder.exists /\ folder.processor) =>
       \A i \in DOMAIN folder_results :
          FileOf(folder_results[i]).kind = "text" =>
             /\ "grouped_boxes" \in DOMAIN folder_results[i]
             /\ "grouped_texts" \in DOMAIN folder_results[i]
             /\ <<folder_results[i].grouped_boxes, folder_results[i].grouped_texts>>
                   = GroupedUnder(folder.x_threshold, folder.y_threshold)

-----------------------------------------------------------------------------
(* MangaScraper.download_images (utils/manga_scraper.py:147-230)            *)

\* manga_scraper.py:187 and 190
max_retries_521 == 3
max_retries_backoff == 3

\* what one requests.get and the writing of its body end with: a response
\* with a status, or an exception: of the request (no status), or of the
\* stream of a 200 response after the file was opened for writing
Outcomes ==
    {[status |-> st, raised |-> FALSE] : st \in {200, 521, 522, 503, 404}}
    \cup {[status |-> 0, raised |-> TRUE], [status |-> 200, raised |-> TRUE]}

\* the result of one pass of the while loop: what follows, the seconds slept,
\* the counters, and whether the file was opened for writing
Pass(next, wait, r521, rbackoff, wrote) ==
    [next |-> next, wait |-> wait, retries_521 |-> r521, retries_backoff |-> rbackoff,
     wrote |-> wrote]

\* a mutant of attempt: one retry more for each counter
attempt_once_more(r521, rbackoff, outcome) ==
    IF outcome.raised THEN Pass("break", 0, r521, rbackoff, outcome.status = 200)
    ELSE IF outcome.status = 200 THEN Pass("success", 0, r521, rbackoff, TRUE)
    ELSE IF outcome.status = 521
         THEN IF r521 <= max_retries_521
              THEN Pass("retry", 10, r521 + 1, rbackoff, FALSE)
              ELSE Pass("break", 0, r521, rbackoff, FALSE)
    ELSE IF outcome.status \in {522, 503}
         THEN IF rbackoff <= max_retries_backoff
              THEN Pass("retry", 5 * (2 ^ rbackoff), r521, rbackoff + 1, FALSE)
              ELSE Pass("break", 0, r521, rbackoff, FALSE)
    ELSE Pass("break", 0, r521, rbackoff, FALSE)

\* a mutant of attempt: a retry after 521 sets the counter of 522/503 back to 0
attempt_linked(r521, rbackoff, outcome) ==
    IF outcome.raised THEN Pass("break", 0, r521, rbackoff, outcome.status = 200)
    ELSE IF outcome.status = 200 THEN Pass("success", 0, r521, rbackoff, TRUE)
    ELSE IF outcome.status = 521
         THEN IF r521 < max_retries_521
              THEN Pass("retry", 10, r521 + 1, 0, FALSE)
              ELSE Pass("break", 0, r521, rbackoff, FALSE)
    ELSE IF outcome.status \in {522, 503}
         THEN IF rbackoff < max_retries_backoff
              THEN Pass("retry", 5 * (2 ^ rbackoff), r521, rbackoff + 1, FALSE)
              ELSE Pass("break", 0, r521, rbackoff, FALSE)
    ELSE Pass("break", 0, r521, rbackoff, FALSE)

\* manga_scraper.py:195-228: one pass of `while not success`
attempt(r521, rbackoff, outcome) ==
    IF outcome.raised THEN Pass("break", 0, r521, rbackoff, outcome.status = 200)
    ELSE IF outcome.status = 200 THEN Pass("success", 0, r521, rbackoff, TRUE)
    ELSE IF outcome.status = 521
         THEN IF r521 < max_retries_521
              THEN Pass("retry", 10, r521 + 1, rbackoff, FALSE)
              ELSE Pass("break", 0, r521, rbackoff, FALSE)
    ELSE IF outcome.status \in {522, 503}
         THEN IF rbackoff < max_retries_backoff
              THEN Pass("retry", 5 * (2 ^ rbackoff), r521, rbackoff + 1, FALSE)
              ELSE Pass("break", 0, r521, rbackoff, FALSE)
    ELSE Pass("break", 0, r521, rbackoff, FALSE)

\* a mutant of for_next: the loop over the URLs ends after a URL that failed
for_next_until_failure(i, n, ok) ==
    IF i < n /\ (i = 0 \/ ok) THEN "while" ELSE "done"

\* manga_scraper.py:175: for i, url in enumerate(image_urls), after a URL
\* that ended with success = ok
for_next(i, n, ok) == IF i < n THEN "while" ELSE "done"

InitDownload ==
    /\ GroupIdle /\ AsmIdle /\ AppIdle /\ FitIdle /\ WrapIdle /\ OvIdle /\ DrIdle /\ OcrIdle
    /\ dl_n \in 0..MaxUrls
    /\ dl_pc = "for"
    /\ dl_i = 0
    /\ retries_521 = 0 /\ retries_backoff = 0 /\ success = FALSE
    /\ dl_attempts = <<>>
    /\ dl_requested = {} /\ dl_got200 = {} /\ dl_files = {}

\* manga_scraper.py:175-192: the next URL, with its counters at 0
ForNext ==
    /\ dl_pc = "for"
    /\ dl_pc' = for_next(dl_i, dl_n, success)
    /\ IF dl_pc' = "while"
       THEN /\ dl_i' = dl_i + 1
            /\ retries_521' = 0 /\ retries_backoff' = 0 /\ success' = FALSE
            /\ dl_attempts' = <<>>
       ELSE UNCHANGED <<dl_i, retries_521, retries_backoff, success, dl_attempts>>
    /\ UNCHANGED <<dl_n, dl_requested, dl_got200, dl_files>>

\* manga_scraper.py:194-228: one request for the URL and what follows it
Request ==
    /\ dl_pc = "while"
    /\ \E outcome \in Outcomes :
          LET pass == attempt(retries_521, retries_backoff, outcome)
          IN  /\ retries_521' = pass.retries_521
              /\ retries_backoff' = pass.retries_backoff
              /\ success' = (pass.next = "success")
              /\ dl_pc' = IF pass.next = "retry" THEN "while" ELSE "for"
              /\ dl_attempts' = Append(dl_attempts,
                                       [status |-> outcome.status, raised |-> outcome.raised,
                                        wait |-> pass.wait])
              /\ dl_files' = IF pass.wrote THEN dl_files \cup {dl_i} ELSE dl_files
              /\ dl_got200' = IF outcome.status = 200 THEN dl_got200 \cup {dl_i} ELSE dl_got200
    /\ dl_requested' = dl_requested \cup {dl_i}
    /\ UNCHANGED <<dl_n, dl_i>>

NextDownload ==
    \/ ForNext /\ UNCHANGED <<group_vars, asm_vars, app_vars, fit_vars, wrap_vars, ov_vars, dr_vars, ocr_vars>>
    \/ Request /\ UNCHANGED <<group_vars, asm_vars, app_vars, fit_vars, wrap_vars, ov_vars, dr_vars, ocr_vars>>

SpecDownload == InitDownload /\ [][NextDownload]_vars

\* download_images is sequential code: while it is not over its next step is
\* taken, every request ending with a response or an exception
FairDownload == InitDownload /\ [][NextDownload]_vars /\ WF_vars(NextDownload)

\* the responses to the requests for the current URL that had status 521
Got521 == SelectSeq(dl_attempts, LAMBDA a : ~a.raised /\ a.status = 521)
\* those that had status 522 or 503
GotBackoff == SelectSeq(dl_attempts, LAMBDA a : ~a.raised /\ a.status \in {522, 503})
\* the attempts for the current URL are over and it has no file
UrlFailed == dl_pc # "while" /\ ~success /\ dl_i \notin dl_files

C29_Terminates ==
    /\ [](Len(dl_attempts) <= 1 + max_retries_521 + max_retries_backoff)
    /\ [](Len(Got521) <= 1 + max_retries_521 /\ Len(GotBackoff) <= 1 + max_retries_backoff)
    /\ <>(dl_pc = "done" /\ dl_requested = 1..dl_n)

\* the function is over after a last URL that was requested 7 times, the
\* responses 521 and 522/503 alternating
C29_Witness ==
    /\ dl_pc = "done" /\ dl_n = MaxUrls /\ dl_requested = 1..dl_n
    /\ [k \in DOMAIN dl_attempts |-> dl_attempts[k].status]
          = <<521, 522, 521, 503, 521, 522, 521>>
    /\ UrlFailed

\* C20: a failure ends the attempts for its URL only: when download_images is
\* over every URL of the list has been requested, whatever became of the URLs
\* before it; the URLs requested are at all times the URLs up to the current
\* one; and a URL has a file exactly when a request for it was answered with
\* status 200.
C20_PerFile ==
    /\ dl_pc = "done" => dl_requested = 1..dl_n
    /\ dl_pc = "for" => dl_requested = 1..dl_i
    /\ dl_pc = "while" => dl_requested \in {1..dl_i, 1..(dl_i - 1)}
    /\ dl_files = dl_got200
    /\ \A k \in DOMAIN dl_attempts :
          (dl_attempts[k].raised \/ dl_attempts[k].status \notin {200, 521, 522, 503})
             => (k = Len(dl_attempts) /\ dl_pc # "while")

\* of two URLs the first failed and has no file, the second was requested
\* once and downloaded
C20_Witness ==
    /\ dl_pc = "done" /\ dl_n = 2
    /\ dl_requested = {1, 2}
    /\ dl_files = {2}
    /\ Len(dl_attempts) = 1 /\ dl_attempts[1].status = 200

-----------------------------------------------------------------------------
(* Typesetter.overlay_text called with the parameters it has *)

\* the groups of boxes overlay_text is given: one box, one box without width,
\* two boxes, a box and a box without width
OverlayGroups ==
    { <<Rect(0, 0, 50, 25)>>, <<Rect(10, 50, 10, 75)>>,
      <<Rect(0, 100, 50, 125), Rect(0, 130, 50, 155)>>,
      <<Rect(0, 200, 75, 225), Rect(10, 230, 10, 255)>> }
\* the translated sentences: "", "m" and "mi"
OverlaySentences == { <<>>, <<"m">>, <<"m", "i">> }

\* app.py:453-454: the Font Size input, from 10 to 200, 30 unless changed
FontSizeInputs == {10, 30}

InitOverlay ==
    /\ GroupIdle /\ AsmIdle /\ AppIdle /\ FitIdle /\ WrapIdle /\ DrIdle /\ OcrIdle /\ DlIdle
    /\ ov_image \in {"ok", "missing", "unreadable"}
    /\ ov_boxes \in SeqsUpTo(OverlayGroups, MaxOverlayGroups) \ {<<>>}
    /\ ov_texts \in SeqsUpTo(OverlaySentences, MaxOverlayGroups)
    /\ ov_font_size \in {0} \cup FontSizeInputs
    /\ ov_result = <<>>
    /\ ov_called = FALSE

\* one call of Typesetter.overlay_text(image_path, grouped_boxes, grouped_texts),
\* with the keyword font_size as at app.py:510-518 or without it: a keyword
\* that is not a parameter of the function makes the call raise TypeError
OverlayText ==
    /\ ~ov_called
    /\ ov_result' =
          IF ov_font_size # 0 /\ "font_size" \notin overlay_text_params
          THEN [raised |-> TRUE, returned |-> "nothing", draws |-> <<>>]
          ELSE overlay_text(ov_image, ov_boxes, ov_texts)
    /\ ov_called' = TRUE
    /\ UNCHANGED <<ov_image, ov_boxes, ov_texts, ov_font_size>>

NextOverlay ==
    OverlayText /\ UNCHANGED <<group_vars, asm_vars, app_vars, fit_vars, wrap_vars, dr_vars, ocr_vars, dl_vars>>

SpecOverlay == InitOverlay /\ [][NextOverlay]_vars

\* the draws overlay_text made for group g
DrawsOf(g) == SelectSeq(ov_result.draws, LAMBDA d : d.group = g)
\* overlay_text went through the groups and returned the image
Overlaid == ov_called /\ ov_result.returned = "image"
\* group g has a translated sentence that is not empty, and a region
Typesettable(g) ==
    /\ g \in DOMAIN ov_boxes /\ g \in DOMAIN ov_texts
    /\ ov_texts[g] # <<>>
    /\ Positive(RegionOf(ov_boxes[g]))

\* C12: a group's translated sentence is laid out once, in the rectangle over
\* every point of every box of the group (the padding being 0).
C12_GroupRegion ==
    Overlaid =>
       \A g \in DOMAIN ov_boxes :
          Typesettable(g) =>
             /\ Len(DrawsOf(g)) = 1
             /\ DrawsOf(g)[1].text = ov_texts[g]
             /\ DrawsOf(g)[1].region
                   = <<RegionOf(ov_boxes[g]).min_x, RegionOf(ov_boxes[g]).min_y,
                       RegionOf(ov_boxes[g]).max_x, RegionOf(ov_boxes[g]).max_y>>

\* C13: every group with a region of positive width and height has its text
\* rendered: what is drawn for the group is the whole of its translated sentence.
C13_NothingDiscarded ==
    Overlaid =>
       \A g \in DOMAIN ov_boxes :
          Typesettable(g) =>
             Concat([d \in DOMAIN DrawsOf(g) |-> DrawsOf(g)[d].text]) = ov_texts[g]

\* C23: when the caller supplies a fixed font size the typesetter makes no
\* search: every text it lays out is wrapped and drawn at exactly that size,
\* whether or not the wrapped block is taller than the region.
C23_FixedFontSize ==
    (ov_called /\ ov_font_size # 0 /\ ov_image = "ok") =>
       /\ ~ov_result.raised
       /\ ov_result.returned = "image"
       /\ \A d \in DOMAIN ov_result.draws :
             /\ ov_result.draws[d].size = ov_font_size
             /\ ov_result.draws[d].lines
                   = wrap_text(ov_result.draws[d].text, ov_font_size,
                               ov_result.draws[d].region[3] - ov_result.draws[d].region[1])

-----------------------------------------------------------------------------
(* The inputs of the typesetter *)

\* the texts: at most MaxTextLen of a narrow glyph, a wide glyph and the space
Texts == SeqsUpTo({"i", "m", " "}, MaxTextLen)
\* the widths and heights of a region: 1..MaxRegion times RegionUnit pixels
RegionSizes == {RegionUnit * k : k \in 1..MaxRegion}
\* the font sizes _wrap_text is called with: both ends and the middle of the range
FontSizes == {min_size, (min_size + max_size) \div 2, max_size}

-----------------------------------------------------------------------------
(* The state machines of the typesetter *)

InitFit ==
    /\ GroupIdle /\ AsmIdle /\ AppIdle /\ WrapIdle /\ OvIdle /\ DrIdle /\ OcrIdle /\ DlIdle
    /\ fit_str \in Texts \ {<<>>}
    /\ fit_width \in RegionSizes
    /\ fit_height \in RegionSizes
    /\ fit_result = <<>>
    /\ fit_called = FALSE

\* one call of Typesetter._fit_text(text, max_width, max_height, draw)
FitText ==
    /\ ~fit_called
    /\ fit_result' = fit_text(fit_str, fit_width, fit_height)
    /\ fit_called' = TRUE
    /\ UNCHANGED <<fit_str, fit_width, fit_height>>

NextFit == FitText /\ UNCHANGED <<group_vars, asm_vars, app_vars, wrap_vars, ov_vars, dr_vars, ocr_vars, dl_vars>>

SpecFit == InitFit /\ [][NextFit]_vars

InitWrap ==
    /\ GroupIdle /\ AsmIdle /\ AppIdle /\ FitIdle /\ OvIdle /\ DrIdle /\ OcrIdle /\ DlIdle
    /\ wrap_str \in Texts
    /\ wrap_size \in FontSizes
    /\ wrap_width \in RegionSizes
    /\ wrap_lines = <<>>
    /\ wrap_called = FALSE

\* one call of Typesetter._wrap_text(text, font, max_width, draw)
WrapText ==
    /\ ~wrap_called
    /\ wrap_lines' = wrap_text(wrap_str, wrap_size, wrap_width)
    /\ wrap_called' = TRUE
    /\ UNCHANGED <<wrap_str, wrap_size, wrap_width>>

NextWrap == WrapText /\ UNCHANGED <<group_vars, asm_vars, app_vars, fit_vars, ov_vars, dr_vars, ocr_vars, dl_vars>>

SpecWrap == InitWrap /\ [][NextWrap]_vars

\* the top left corner of a box
Origins == { <<0, 0>>, <<10, 55>> }

InitDraw ==
    /\ GroupIdle /\ AsmIdle /\ AppIdle /\ FitIdle /\ WrapIdle /\ OvIdle /\ OcrIdle /\ DlIdle
    /\ dr_text \in Texts \ {<<>>}
    /\ dr_region \in {[min_x |-> o[1], min_y |-> o[2], box_width |-> w, box_height |-> h] :
                         o \in Origins, w \in RegionSizes, h \in RegionSizes}
    /\ dr_drawn = <<>>
    /\ dr_called = FALSE

\* the body of the loop of overlay_text for one box with its text (typesetter.py:129-152)
DrawText ==
    /\ ~dr_called
    /\ dr_drawn' = draw_text(dr_text, dr_region.min_x, dr_region.min_y,
                             dr_region.box_width, dr_region.box_height)
    /\ dr_called' = TRUE
    /\ UNCHANGED <<dr_text, dr_region>>

NextDraw == DrawText /\ UNCHANGED <<group_vars, asm_vars, app_vars, fit_vars, wrap_vars, ov_vars, ocr_vars, dl_vars>>

SpecDraw == InitDraw /\ [][NextDraw]_vars

-----------------------------------------------------------------------------
(* Properties of the typesetter *)

\* the measured width and height of one drawn line
DrawnWidth(k) == units(dr_drawn.drawn[k].line) * dr_drawn.size
DrawnHeight(k) == IF dr_drawn.drawn[k].line = <<>> THEN 0 ELSE dr_drawn.size
RECURSIVE HeightUpTo(_)
\* the sum of the measured heights of the first n drawn lines
HeightUpTo(n) == IF n = 0 THEN 0 ELSE HeightUpTo(n - 1) + DrawnHeight(n)

\* C27: the block is centred in its region: the lines of the layout are drawn
\* in order, the first with its top at region top + (H - total_height) / 2,
\* total_height being the sum of the measured line heights, each next line
\* one measured line height below the one before it, and each line with its
\* left edge at region left + (W - line_width) / 2 for that line alone
\* (positions in half pixels: twice the values of the claim).
C27_Centred ==
    dr_called =>
       LET n == Len(dr_drawn.lines)
       IN  /\ Len(dr_drawn.drawn) = n
           /\ \A k \in 1..n :
                 /\ dr_drawn.drawn[k].line = dr_drawn.lines[k]
                 /\ dr_drawn.drawn[k].x
                       = 2 * dr_region.min_x + (dr_region.box_width - DrawnWidth(k))
                 /\ k = 1 => dr_drawn.drawn[k].y
                                = 2 * dr_region.min_y + (dr_region.box_height - HeightUpTo(n))
                 /\ k > 1 => dr_drawn.drawn[k].y
                                = dr_drawn.drawn[k - 1].y + 2 * DrawnHeight(k - 1)

\* two lines of different widths in a box away from the origin, with an odd
\* number of pixels left over in both directions: the lines start at
\* different x, half a pixel off the grid
C27_Witness ==
    /\ dr_called
    /\ dr_region.min_x > 0 /\ dr_region.min_y > 0
    /\ Len(dr_drawn.drawn) = 2
    /\ DrawnWidth(1) # DrawnWidth(2)
    /\ dr_drawn.drawn[1].x # dr_drawn.drawn[2].x
    /\ dr_drawn.drawn[1].x % 2 = 1
    /\ dr_drawn.drawn[1].y % 2 = 1
    /\ dr_drawn.drawn[2].y = dr_drawn.drawn[1].y + 2 * dr_drawn.size

\* the fit predicate at one size: the block wrapped at that size is no taller
\* than the region and no line of it is wider
FitsAt(size) ==
    LET lines == wrap_text(fit_str, size, fit_width)
    IN  /\ sum_heights(lines, size) <= fit_height
        /\ \A k \in DOMAIN lines : line_width(lines[k], size) <= fit_width

\* C9: whenever some size of 10..100 satisfies the fit predicate, the layout
\* _fit_text returns has a total block height no larger than the region height.
C9_FitHeight ==
    (fit_called /\ \E size \in min_size..max_size : FitsAt(size)) =>
        sum_heights(fit_result.lines, fit_result.size) <= fit_height

\* a text that fits at some sizes but not at all: the search settles above the
\* smallest size on a layout of two lines or more
C9_Witness ==
    /\ fit_called
    /\ FitsAt(min_size) /\ ~FitsAt(max_size)
    /\ fit_result.size > min_size
    /\ Len(fit_result.lines) >= 2
    /\ sum_heights(fit_result.lines, fit_result.size) <= fit_height

\* some size of the search range satisfies the fit predicate
SomeSizeFits == \E size \in min_size..max_size : FitsAt(size)
\* the fit predicate is monotone: a size that fits, the size below it fits,
\* and so every smaller size of the range
Monotone == \A size \in (min_size + 1)..max_size : FitsAt(size) => FitsAt(size - 1)
\* the sizes the loop of _fit_text tries
Probes == fit_probes(fit_str, fit_width, fit_height, min_size, max_size, <<>>)

C25_MinimumLayout ==
    (fit_called /\ ~SomeSizeFits) =>
        /\ fit_result.size = min_size
        /\ fit_result.lines = wrap_text(fit_str, min_size, fit_width)

\* C10: a text of one word that is wider than the target width is returned as
\* two lines or more that split the word between characters; and no text is
\* returned as an empty list of lines.
C10_Wrap ==
    wrap_called =>
        /\ Len(wrap_lines) >= 1
        /\ ((\A k \in DOMAIN wrap_str : wrap_str[k] # " ")
               /\ get_width(wrap_str, wrap_size) > wrap_width)
              => (Len(wrap_lines) >= 2 /\ Concat(wrap_lines) = wrap_str)

\* one word, too wide, split into two lines or more, none of them empty
C10_Witness ==
    /\ wrap_called
    /\ Len(wrap_str) >= 2
    /\ \A k \in DOMAIN wrap_str : wrap_str[k] # " "
    /\ get_width(wrap_str, wrap_size) > wrap_width
    /\ Len(wrap_lines) >= 2
    /\ \A k \in DOMAIN wrap_lines : wrap_lines[k] # <<>>

\* C26: for a text of which every single character is no wider than the
\* target width, every line _wrap_text returns is no wider than the target
\* width, wherever a word that is too wide stands in the text.
C26_LinesWithinWidth ==
    (wrap_called /\ \A c \in DOMAIN wrap_str : get_width(<<wrap_str[c]>>, wrap_size) <= wrap_width) =>
        \A k \in DOMAIN wrap_lines : line_width(wrap_lines[k], wrap_size) <= wrap_width

\* a text without its spaces
NoSpaces(str) == SelectSeq(str, LAMBDA c : c # " ")

\* C30: _wrap_text drops, doubles and moves no character: the returned lines
\* put end to end, spaces removed, are the text with its spaces removed, for
\* every text and every target width.
C30_CharactersKept ==
    wrap_called => NoSpaces(Concat(wrap_lines)) = NoSpaces(wrap_str)

\* a text with a space and a word too wide for the width, split between its
\* characters: three lines or more that hold the characters of the text
C30_Witness ==
    /\ wrap_called
    /\ \E k \in DOMAIN wrap_str : wrap_str[k] = " "
    /\ \E k \in DOMAIN wrap_str : k < Len(wrap_str) /\ wrap_str[k] # " " /\ wrap_str[k + 1] # " "
    /\ Len(NoSpaces(wrap_str)) = Len(wrap_str) - 1
    /\ Len(wrap_lines) >= 3
    /\ \A k \in DOMAIN wrap_lines : Len(wrap_lines[k]) <= 1
    /\ NoSpaces(Concat(wrap_lines)) = NoSpaces(wrap_str)

NextAssemble == Assemble /\ UNCHANGED <<group_vars, app_vars, fit_vars, wrap_vars, ov_vars, dr_vars, ocr_vars, dl_vars>>

SpecAssemble == InitAssemble /\ [][NextAssemble]_vars

Next ==
    \/ StartTranslation /\ UNCHANGED <<group_vars, asm_vars, fit_vars, wrap_vars, ov_vars, dr_vars, ocr_vars, dl_vars>>
    \/ ConfirmRender /\ UNCHANGED <<group_vars, asm_vars, fit_vars, wrap_vars, ov_vars, dr_vars, ocr_vars, dl_vars>>

Spec == Init /\ [][Next]_vars

====
